---- MODULE Spec2Model ----
(***************************************************************************)
(* Model of the intervention decision service of server/index.js: the      *)
(* per-session context buckets (interventionState), the /api/parse and     *)
(* /api/ai/analyze handlers, the LLM provider gateway and the generation   *)
(* orchestrators.                                                          *)
(*                                                                         *)
(* Conventions                                                             *)
(*  - Numbers with decimals are scaled integers: a confidence or a         *)
(*    mouse_score is in hundredths (0.72 is 72), a raw cooldown_seconds    *)
(*    coming from the LLM is in tenths of a second (12.5 is 125) so that   *)
(*    Math.round can be modelled; the sanitized cooldown_seconds is in     *)
(*    whole seconds and Date.now() is in milliseconds.                     *)
(*  - A value that may be null is a sequence: Null is <<>>, Some(x) is     *)
(*    <<x>>.  A JSON number that may be missing or non-numeric is a record *)
(*    [finite, v]; a JSON array that may be missing is [isArray, items].   *)
(*  - A function of the server that is examined on its own is called by    *)
(*    an action of its own, which puts the arguments and the result into   *)
(*    probe; the handlers leave probe alone.                               *)
(*  - An analyze request is a record that holds the handler's local        *)
(*    variables and its position (pc).  The handler runs without           *)
(*    interruption between two awaits on provider I/O; each such stretch   *)
(*    is one action.                                                       *)
(***************************************************************************)
EXTENDS Integers, Sequences, FiniteSets, TLC

VARIABLES
  now,                \* Date.now(), milliseconds
  apiKeys,            \* [gemini, groq]: whether GEMINI_API_KEY / GROQ_API_KEY are set
  interventionState,  \* the Map: session key -> Null or Some(bucket)
  recentEvents,       \* number of entries of the recentEvents log
  req,                \* slot -> the analyze request being served on that connection
  probe               \* the arguments and the result of a function called on its own

vars == <<now, apiKeys, interventionState, recentEvents, req, probe>>

-----------------------------------------------------------------------------
(* Bounds of the model *)

\* Date.now() when the server starts taking requests (ms since the epoch)
StartTime == 1000000
\* the clock advances at most this many times
MaxTicks == 2
\* analyze requests started on one connection
MaxAnalyze == 2
\* /api/parse requests served
MaxParse == 1
\* /api/parse requests served where the rolling window is filled
MaxWindowParse == 16


-----------------------------------------------------------------------------
(* Values *)

Null == <<>>
Some(x) == <<x>>
IsNull(o) == o = <<>>
Val(o) == o[1]

NonNumeric == [finite |-> FALSE, v |-> 0]
Num(n) == [finite |-> TRUE, v |-> n]

NotArray == [isArray |-> FALSE, items |-> <<>>]
Arr(s) == [isArray |-> TRUE, items |-> s]

Min(a, b) == IF a < b THEN a ELSE b
Max(a, b) == IF a > b THEN a ELSE b

\* Array.prototype.slice(0, n) and String.prototype.slice(0, n)
Take(s, n) == SubSeq(s, 1, Min(Len(s), n))

\* Math.round of a number given in tenths: floor(x + 0.5)
RoundTenths(t) == (t + 5) \div 10

\* String.prototype.trim (spaces only)
RECURSIVE TrimLeft(_)
TrimLeft(s) ==
  IF Len(s) > 0 /\ SubSeq(s, 1, 1) = " " THEN TrimLeft(SubSeq(s, 2, Len(s))) ELSE s
RECURSIVE TrimRight(_)
TrimRight(s) ==
  IF Len(s) > 0 /\ SubSeq(s, Len(s), Len(s)) = " "
  THEN TrimRight(SubSeq(s, 1, Len(s) - 1)) ELSE s
Trim(s) == TrimRight(TrimLeft(s))

\* the elements of a sequence that satisfy a test, in order
Range(s) == {s[i] : i \in 1..Len(s)}

\* Array.prototype.filter: the elements of s from the i-th on that are in the
\* set kept, in order
RECURSIVE SelectIn(_, _, _)
SelectIn(s, kept, i) ==
  IF i > Len(s) THEN <<>>
  ELSE (IF s[i] \in kept THEN <<s[i]>> ELSE <<>>) \o SelectIn(s, kept, i + 1)

\* s.filter(...), given the elements the test keeps
Filter(s, kept) == SelectIn(s, kept, 1)

-----------------------------------------------------------------------------
(* Payloads and their summaries *)

MAX_RECENT_EVENTS == 200
MAX_CONTEXT_EVENTS == 15

\* the object {} read with the defaults summarizeForModel applies to it
EmptyEvent ==
  [ domain |-> "", page_title |-> "", is_allowed |-> "undefined",
    is_relevant_to_topic |-> "undefined", inactivity_seconds |-> 0,
    mouse_score |-> 0, headings |-> <<>>, summary |-> "" ]

\* summarizeForModel(payload): the fields come from the LAST entry of
\* payload.events (or {} when there is none); domain and page_title fall
\* back to the payload's own.  session_duration, tab_switches,
\* active_tab_time_seconds, category, scroll speed, clicks, word_count,
\* metadata and youtube are copied into the prompt only and are left out.
summarizeForModel(payload) ==
  LET events == payload.events
      latest == IF Len(events) > 0 THEN events[Len(events)] ELSE EmptyEvent
  IN [ trigger_type |-> payload.trigger_type,
       requested_intervention |-> payload.requested_intervention,
       study_topic |-> payload.study_topic,
       domain |-> IF latest.domain # "" THEN latest.domain ELSE payload.domain,
       page_title |-> IF latest.page_title # "" THEN latest.page_title
                      ELSE payload.page_title,
       is_allowed |-> latest.is_allowed = "true",
       \* undefined gives null; Boolean(x) of anything else, and Boolean(null)
       \* is false
       is_relevant_to_topic |->
         IF latest.is_relevant_to_topic = "undefined" THEN "null"
         ELSE IF latest.is_relevant_to_topic = "true" THEN "true" ELSE "false",
       inactivity_seconds |-> latest.inactivity_seconds,
       mouse_score |-> latest.mouse_score,
       headings |-> latest.headings,
       summary |-> latest.summary ]

\* a JSON number 0 and a missing field are both falsy
TabFalsy(tab) == tab = "" \/ tab = "0"

sessionKey(payload) ==
  LET topic == IF payload.study_topic = "" THEN "untitled" ELSE payload.study_topic
  IN topic \o "::" \o (IF TabFalsy(payload.active_tab_id) THEN "na"
                        ELSE payload.active_tab_id)

\* interventionState.get(key)
MapGet(map, key) == IF key \in DOMAIN map THEN Some(map[key]) ELSE Null
\* interventionState.set(key, bucket)
MapSet(map, key, bucket) ==
  [k \in (DOMAIN map) \cup {key} |-> IF k = key THEN bucket ELSE map[k]]

FreshBucket == [events |-> <<>>, lastInterventionAt |-> 0]

\* getRecentContext(payload): a REFERENCE to the bucket object.  The object
\* stored for a key is never replaced once it is there (saveRecentContext and
\* markIntervention mutate it in place and set it again), so a reference is
\* either "shared" (the object in the map, which later requests mutate) or
\* "detached" (a fresh object that was never put into the map).
getRecentContext(map, payload) ==
  IF sessionKey(payload) \in DOMAIN map THEN "shared" ELSE "detached"

\* reading the referenced object
Deref(map, payload, ref) ==
  IF ref = "shared" THEN map[sessionKey(payload)] ELSE FreshBucket

\* a window that, once full, drops the new entry instead of the oldest
PushEventKeepsOldest(events, x) == Take(Append(events, x), MAX_CONTEXT_EVENTS)

\* events.push(x) followed by the splice that keeps the last 15
PushEvent(events, x) ==
  LET pushed == Append(events, x)
  IN IF Len(pushed) > MAX_CONTEXT_EVENTS
     THEN SubSeq(pushed, Len(pushed) - MAX_CONTEXT_EVENTS + 1, Len(pushed))
     ELSE pushed

saveRecentContext(map, payload) ==
  LET key == sessionKey(payload)
      found == MapGet(map, key)
      bucket == IF IsNull(found) THEN FreshBucket ELSE Val(found)
  IN MapSet(map, key,
            [bucket EXCEPT !.events = PushEvent(bucket.events, summarizeForModel(payload))])

\* a stamp that creates the bucket but leaves the time as it was
markInterventionKeepsStamp(map, payload, t) ==
  LET key == sessionKey(payload)
      found == MapGet(map, key)
      bucket == IF IsNull(found) THEN FreshBucket ELSE Val(found)
  IN MapSet(map, key, bucket)

markIntervention(map, payload, t) ==
  LET key == sessionKey(payload)
      found == MapGet(map, key)
      bucket == IF IsNull(found) THEN FreshBucket ELSE Val(found)
  IN MapSet(map, key, [bucket EXCEPT !.lastInterventionAt = t])

-----------------------------------------------------------------------------
(* Text: strings are TLA+ strings, compared character by character *)

UpperChars == "ABCDEFGHIJKLMNOPQRSTUVWXYZ"
LowerChars == "abcdefghijklmnopqrstuvwxyz"
DigitChars == "0123456789"

CharAt(s, i) == SubSeq(s, i, i)
CharSet(s) == {CharAt(s, i) : i \in 1..Len(s)}

UpperSet == CharSet(UpperChars)
LowerMap == [c \in UpperSet |->
               CharAt(LowerChars, CHOOSE i \in 1..Len(UpperChars) : CharAt(UpperChars, i) = c)]

LowerOfChar(c) == IF c \in UpperSet THEN LowerMap[c] ELSE c

\* String.prototype.toLowerCase (halving keeps the evaluation shallow)
RECURSIVE ToLower(_)
ToLower(s) ==
  IF Len(s) = 0 THEN ""
  ELSE IF Len(s) = 1 THEN LowerOfChar(s)
  ELSE LET h == Len(s) \div 2
       IN ToLower(SubSeq(s, 1, h)) \o ToLower(SubSeq(s, h + 1, Len(s)))

\* String.prototype.includes
Includes(s, p) ==
  \E i \in 1..(Len(s) - Len(p) + 1) : SubSeq(s, i, i + Len(p) - 1) = p

\* Array.prototype.join
RECURSIVE Join(_, _)
Join(parts, sep) ==
  IF Len(parts) = 0 THEN ""
  ELSE IF Len(parts) = 1 THEN parts[1]
  ELSE parts[1] \o sep \o Join(Tail(parts), sep)

WordCharSet == CharSet(LowerChars) \cup CharSet(DigitChars)
IsWordChar(c) == c \in WordCharSet

\* s.split(/[^a-z0-9]+/) without the empty strings it can yield at the ends
\* (tokenize drops them: they are shorter than 3): the maximal runs of word
\* characters, from left to right
WordStarts(s) ==
  {i \in 1..Len(s) : IsWordChar(CharAt(s, i)) /\ (i = 1 \/ ~IsWordChar(CharAt(s, i - 1)))}
WordEnd(s, i) ==
  LET ends == {j \in i..Len(s) : j = Len(s) \/ ~IsWordChar(CharAt(s, j + 1))}
  IN CHOOSE j \in ends : \A k \in ends : j <= k
RECURSIVE WordsFrom(_, _)
WordsFrom(s, starts) ==
  IF starts = {} THEN <<>>
  ELSE LET i == CHOOSE x \in starts : \A y \in starts : x <= y
       IN <<SubSeq(s, i, WordEnd(s, i))>> \o WordsFrom(s, starts \ {i})
SplitWords(s) == WordsFrom(s, WordStarts(s))

STOPWORDS ==
  { "the", "and", "for", "with", "that", "this", "from", "into", "about", "your",
    "you", "are", "was", "were", "have", "has", "had", "will", "would", "could",
    "should", "can", "academy", "welcome", "home", "login", "parent", "teacher",
    "learner" }

\* Object.entries(TOPIC_SYNONYMS), in the order of the source
TOPIC_SYNONYMS ==
  << [ family |-> "coding",
       synonyms |-> << "program", "programming", "code", "coding", "algorithm",
                       "function", "loop", "array", "linked", "tree", "stack",
                       "queue", "complexity", "javascript", "react", "hooks",
                       "state", "component", "useeffect", "usestate" >> ],
     [ family |-> "physics",
       synonyms |-> << "force", "motion", "energy", "velocity", "acceleration",
                       "torque", "momentum", "newton" >> ],
     [ family |-> "chemistry",
       synonyms |-> << "atom", "molecule", "reaction", "oxidation", "reduction",
                       "acid", "base", "bond" >> ],
     [ family |-> "biology",
       synonyms |-> << "cell", "gene", "enzyme", "organism", "dna", "protein",
                       "evolution" >> ],
     [ family |-> "math",
       synonyms |-> << "algebra", "calculus", "equation", "derivative", "integral",
                       "geometry", "probability" >> ],
     [ family |-> "history",
       synonyms |-> << "empire", "war", "revolution", "timeline", "civilization",
                       "treaty" >> ],
     [ family |-> "economics",
       synonyms |-> << "demand", "supply", "inflation", "gdp", "market",
                       "elasticity" >> ] >>

tokenize(text) ==
  LET Kept(w) == Len(w) >= 3 /\ w \notin STOPWORDS
  IN Filter(SplitWords(ToLower(text)),
             {x \in Range(SplitWords(ToLower(text))) : Kept(x)})

\* the number of tokens found in the family's lexicon
FamilyScore(tokens, entry) ==
  LET lexicon == {entry.family} \cup Range(entry.synonyms)
      InLexicon(t) == t \in lexicon
  IN Len(Filter(tokens,
             {x \in Range(tokens) : InLexicon(x)}))

\* the for-loop of inferTopicFamily: a later family wins only with a strictly
\* higher score
RECURSIVE BestFamily(_, _, _, _)
BestFamily(tokens, i, bestFamily, bestScore) ==
  IF i > Len(TOPIC_SYNONYMS) THEN bestFamily
  ELSE LET score == FamilyScore(tokens, TOPIC_SYNONYMS[i])
       IN IF score > bestScore
          THEN BestFamily(tokens, i + 1, TOPIC_SYNONYMS[i].family, score)
          ELSE BestFamily(tokens, i + 1, bestFamily, bestScore)

inferTopicFamily(studyTopic) ==
  LET tokens == tokenize(studyTopic)
  IN IF Len(tokens) = 0 THEN "general" ELSE BestFamily(tokens, 1, "general", 0)

\* [...new Set(list)]: the first occurrence of each element, in order
RECURSIVE Dedupe(_, _)
Dedupe(list, seen) ==
  IF Len(list) = 0 THEN <<>>
  ELSE IF Head(list) \in seen THEN Dedupe(Tail(list), seen)
  ELSE <<Head(list)>> \o Dedupe(Tail(list), seen \cup {Head(list)})

FamilySynonyms(topicFamily) ==
  LET hits == {i \in 1..Len(TOPIC_SYNONYMS) : TOPIC_SYNONYMS[i].family = topicFamily}
  IN IF hits = {} THEN <<>> ELSE TOPIC_SYNONYMS[CHOOSE i \in hits : TRUE].synonyms

\* terms that also hold the name of the family
topicTermsWithFamilyName(studyTopic, topicFamily) ==
  Dedupe(Take(tokenize(studyTopic), 8) \o <<topicFamily>> \o FamilySynonyms(topicFamily), {})

topicTerms(studyTopic, topicFamily) ==
  Dedupe(Take(tokenize(studyTopic), 8) \o FamilySynonyms(topicFamily), {})

\* Number(score.toFixed(2)) of score = num / den, in hundredths
RoundHundredths(num, den) == (200 * num + den) \div (2 * den)

computeTopicRelevance(modelInput) ==
  LET topicFamily == inferTopicFamily(modelInput.study_topic)
      terms == topicTerms(modelInput.study_topic, topicFamily)
      sourceText == Join(<<modelInput.page_title>> \o modelInput.headings
                           \o <<modelInput.summary>>, " ")
      sourceTokens == Range(tokenize(sourceText))
      InSource(t) == t \in sourceTokens
      matched == Filter(terms,
             {x \in Range(terms) : InSource(x)})
      den == Max(4, Len(terms))
      \* score = min(1, matched / max(4, terms)), kept as the fraction num/den
      num == IF Len(terms) = 0 THEN 0 ELSE Min(den, Len(matched))
  IN [ topic_family |-> topicFamily,
       topic_terms |-> terms,
       matched_terms |-> matched,
       relevance_score |-> RoundHundredths(num, den),
       context_quality |->
         IF 100 * num >= 35 * den THEN "good"
         ELSE IF 100 * num >= 15 * den THEN "weak" ELSE "none" ]

-----------------------------------------------------------------------------
(* Content quality validators *)

\* how many of the phrases occur in the text
CountIncluded(text, phrases) == Cardinality({i \in 1..Len(phrases) : Includes(text, phrases[i])})

AnyIncluded(text, phrases) == \E i \in 1..Len(phrases) : Includes(text, phrases[i])

BannedPhrases ==
  << "welcome to", "this page", "homepage", "platform description", "click here",
     "which option best explains a beginner concept in" >>

\* isLowQualityFlashcard(card, studyTopic, profile) for a card object
isLowQualityFlashcard(card, studyTopic, profile) ==
  LET q == Trim(card.question)
      NonBlank(x) == x # ""
      options == Filter([i \in 1..Len(card.options) |-> Trim(card.options[i])],
             {x \in Range([i \in 1..Len(card.options) |-> Trim(card.options[i])]) : NonBlank(x)})
      answer == Trim(card.answer)
      answerLower == ToLower(answer)
      hasAnswerMatch ==
        \E i \in 1..Len(options) :
          LET opt == ToLower(options[i])
          IN opt = answerLower \/ Includes(opt, answerLower) \/ Includes(answerLower, opt)
      blob == ToLower(q \o " " \o Join(options, " ") \o " " \o card.hint
                        \o " " \o card.explanation)
      terms == topicTerms(studyTopic, profile.topic_family)
      LongWord(w) == Len(w) >= 4
      topicWords == Filter(tokenize(studyTopic),
             {x \in Range(tokenize(studyTopic)) : LongWord(x)})
      hasTopicWord == AnyIncluded(blob, topicWords)
      hasFamilySignal == AnyIncluded(blob, Filter(terms,
             {x \in Range(terms) : LongWord(x)}))
  IN \/ card.question = ""
     \/ Len(card.options) # 4
     \/ q = "" \/ Len(q) < 16
     \/ Len(options) # 4
     \/ answer = ""
     \/ Cardinality({ToLower(options[i]) : i \in 1..Len(options)}) < 4
     \/ ~hasAnswerMatch
     \/ AnyIncluded(blob, BannedPhrases)
     \/ (~hasTopicWord /\ ~hasFamilySignal)

\* the match of /^([A-D])(?:[\).:\-\s]|$)/i : 0 when there is none, else the
\* position of the letter in the alphabet (A is 1)
OptionLetter(raw) ==
  IF Len(raw) = 0 THEN 0
  ELSE LET c == LowerOfChar(CharAt(raw, 1))
           followed == Len(raw) = 1 \/ CharAt(raw, 2) \in {")", ".", ":", "-", " "}
       IN IF c \in {"a", "b", "c", "d"} /\ followed
          THEN CHOOSE i \in 1..4 : CharAt(LowerChars, i) = c
          ELSE 0

normalizeFlashcardAnswer(card) ==
  LET raw == Trim(card.answer)
      m == OptionLetter(raw)
  IN IF m # 0 /\ Len(card.options) >= 4
     THEN (IF m - 1 >= 0 /\ m - 1 < Len(card.options)
           THEN [card EXCEPT !.answer = card.options[m]] ELSE card)
     ELSE card

GenericSignals ==
  << "come back", "stay focused", "one more minute", "back to work", "stay here" >>

ScriptBlob(script) == ToLower(Join([i \in 1..Len(script) |-> script[i].text], " "))

\* looksGenericMascotScript(script, studyTopic, domain, profile) for an array
looksGenericMascotScript(script, studyTopic, domain, profile) ==
  \/ Len(script) < 4
  \/ LET blob == ScriptBlob(script)
         genericCount == CountIncluded(blob, GenericSignals)
         terms == topicTerms(studyTopic, profile.topic_family)
         hasTopic == AnyIncluded(blob, terms)
         hasDomain == domain # "" /\ Includes(blob, ToLower(domain))
     IN genericCount >= 2 \/ (~hasTopic /\ ~hasDomain)

hasTopicContextInLine(text, profile, domain) ==
  LET lower == ToLower(text)
      LongWord(w) == Len(w) >= 4
  IN /\ lower # ""
     /\ \/ (domain # "" /\ Includes(lower, ToLower(domain)))
        \/ AnyIncluded(lower, Filter(profile.topic_terms \o profile.matched_terms,
             {x \in Range(profile.topic_terms \o profile.matched_terms) : LongWord(x)}))

hasExplicitStudyTopicMention(text, studyTopic) ==
  LET lower == ToLower(text)
      LongWord(w) == Len(w) >= 4
      topicWords == Filter(tokenize(studyTopic),
             {x \in Range(tokenize(studyTopic)) : LongWord(x)})
  IN Len(topicWords) > 0 /\ AnyIncluded(lower, topicWords)

LureSignals ==
  << "just one more", "take a break", "later", "scroll", "reel", "feed", "ignore",
     "skip", "procrast", "you deserve", "not now", "waste", "avoid" >>

PositiveStudySignals ==
  << "great job", "keep studying", "you are doing great", "focus now", "good work",
     "you got this", "well done" >>

\* a weakness test that does not look for lure phrases
isDevilLineWeakWithoutLure(text) ==
  AnyIncluded(ToLower(text), PositiveStudySignals)

isDevilLineWeak(text) ==
  LET lower == ToLower(text)
  IN AnyIncluded(lower, PositiveStudySignals) /\ ~AnyIncluded(lower, LureSignals)

\* validateMascotScriptStrict(script, profile, domain, studyTopic); script may be null
validateMascotScriptStrict(script, profile, domain, studyTopic) ==
  /\ ~IsNull(script)
  /\ Len(Val(script)) >= 4
  /\ LET order == <<"devil", "angel", "devil", "angel">>
         normalized == [i \in 1..4 |-> [ speaker |-> order[i],
                                         text |-> Trim(Val(script)[i].text) ]]
         weakDevilCount ==
           Cardinality({i \in 1..4 : normalized[i].speaker = "devil"
                                      /\ isDevilLineWeak(normalized[i].text)})
         hasAnyTopicContext ==
           \E i \in 1..4 :
             \/ hasTopicContextInLine(normalized[i].text, profile, domain)
             \/ hasExplicitStudyTopicMention(normalized[i].text, studyTopic)
         hasTopicMention ==
           \E i \in 1..4 : hasExplicitStudyTopicMention(normalized[i].text, studyTopic)
         blob == ScriptBlob(normalized)
     IN /\ \A i \in 1..4 : Len(normalized[i].text) >= 8
        /\ \A i \in 1..4 : normalized[i].speaker = order[i]
        /\ weakDevilCount < 2
        /\ hasAnyTopicContext
        /\ (looksGenericMascotScript(normalized, studyTopic, domain, profile)
              => hasTopicMention)
        /\ CountIncluded(blob, <<"stay focused", "one more minute", "come back">>) < 3

-----------------------------------------------------------------------------
(* Decisions *)

StatusSet == {"focused", "mild_distraction", "distracted", "severe_distraction"}
InterventionSet == {"none", "flashcard", "mascot_chat"}

SpeakerAt(i) == IF i % 2 = 1 THEN "devil" ELSE "angel"

\* lines 120-131: the flashcard of a raw decision
sanitizedFlashcard(raw) ==
  IF IsNull(raw.flashcard) THEN Null
  ELSE LET c == Val(raw.flashcard)
       IN Some([ question |-> Take(c.question, 260),
                 options |-> IF c.options.isArray
                             THEN [i \in 1..Min(4, Len(c.options.items)) |->
                                     Take(c.options.items[i], 120)]
                             ELSE <<>>,
                 answer |-> Take(c.answer, 120),
                 hint |-> Take(c.hint, 180),
                 explanation |-> Take(c.explanation, 320) ])

\* lines 133-140: the mascot_script of a raw decision
sanitizedScript(raw) ==
  IF raw.mascot_script.isArray
  THEN Some([i \in 1..Min(8, Len(raw.mascot_script.items)) |->
               [ speaker |-> SpeakerAt(i),
                 text |-> Take(raw.mascot_script.items[i].text, 220) ]])
  ELSE Null

\* lines 117-119: the reason_codes of a raw decision
sanitizedReasonCodes(raw) ==
  IF raw.reason_codes.isArray
  THEN [i \in 1..Min(5, Len(raw.reason_codes.items)) |->
          Take(raw.reason_codes.items[i], 60)]
  ELSE <<>>

\* sanitizeDecision with Math.round but without the clamp of cooldown_seconds
sanitizeDecisionUnclamped(raw) ==
  [ status |-> IF raw.status \in StatusSet THEN raw.status ELSE "focused",
    confidence |->
      IF raw.confidence.finite THEN Max(0, Min(100, raw.confidence.v)) ELSE 50,
    intervention |->
      IF raw.intervention \in InterventionSet THEN raw.intervention ELSE "none",
    cooldown_seconds |->
      IF raw.cooldown_seconds.finite THEN RoundTenths(raw.cooldown_seconds.v) ELSE 15,
    reason_codes |-> sanitizedReasonCodes(raw),
    flashcard |-> sanitizedFlashcard(raw),
    mascot_script |-> sanitizedScript(raw),
    generation_failed |-> raw.generation_failed ]

\* sanitizeDecision that keeps the speakers the LLM wrote
sanitizeDecisionKeepsSpeakers(raw) ==
  [ status |-> IF raw.status \in StatusSet THEN raw.status ELSE "focused",
    confidence |->
      IF raw.confidence.finite THEN Max(0, Min(100, raw.confidence.v)) ELSE 50,
    intervention |->
      IF raw.intervention \in InterventionSet THEN raw.intervention ELSE "none",
    cooldown_seconds |->
      IF raw.cooldown_seconds.finite
      THEN Max(10, Min(180, RoundTenths(raw.cooldown_seconds.v)))
      ELSE 15,
    reason_codes |-> sanitizedReasonCodes(raw),
    flashcard |-> sanitizedFlashcard(raw),
    mascot_script |->
      IF raw.mascot_script.isArray
      THEN Some([i \in 1..Min(8, Len(raw.mascot_script.items)) |->
                   [ speaker |-> raw.mascot_script.items[i].speaker,
                     text |-> Take(raw.mascot_script.items[i].text, 220) ]])
      ELSE Null,
    generation_failed |-> raw.generation_failed ]

\* sanitizeDecision(raw) for a raw value that is a JSON object
sanitizeDecision(raw) ==
  [ status |-> IF raw.status \in StatusSet THEN raw.status ELSE "focused",
    confidence |->
      IF raw.confidence.finite THEN Max(0, Min(100, raw.confidence.v)) ELSE 50,
    intervention |->
      IF raw.intervention \in InterventionSet THEN raw.intervention ELSE "none",
    cooldown_seconds |->
      IF raw.cooldown_seconds.finite
      THEN Max(10, Min(180, RoundTenths(raw.cooldown_seconds.v)))
      ELSE 15,
    reason_codes |-> sanitizedReasonCodes(raw),
    flashcard |-> sanitizedFlashcard(raw),
    mascot_script |-> sanitizedScript(raw),
    generation_failed |-> raw.generation_failed ]

\* the heuristic with the idle threshold at one minute
isDistractedHeuristicLate(latest) ==
  \/ latest.inactivity_seconds > 60
  \/ latest.is_relevant_to_topic = "false"
  \/ (latest.is_allowed = FALSE /\ latest.mouse_score < 25)

\* lines 752-755
isDistractedHeuristic(latest) ==
  \/ latest.inactivity_seconds > 40
  \/ latest.is_relevant_to_topic = "false"
  \/ (latest.is_allowed = FALSE /\ latest.mouse_score < 25)

fallbackDecision(payload) ==
  LET latest == summarizeForModel(payload)
  IN IF ~isDistractedHeuristic(latest)
     THEN [ status |-> "focused", confidence |-> 62, intervention |-> "none",
            cooldown_seconds |-> 90,
            reason_codes |-> <<"fallback_focused", "ai_provider_unavailable">>,
            flashcard |-> Null, mascot_script |-> Null,
            generation_failed |-> TRUE ]
     ELSE [ status |-> "distracted", confidence |-> 66, intervention |-> "none",
            cooldown_seconds |-> 90,
            reason_codes |-> <<"fallback_distraction_detected", "ai_provider_unavailable">>,
            flashcard |-> Null, mascot_script |-> Null,
            generation_failed |-> TRUE ]

\* a lenient check that asks for a question of 20 characters
hasUsableFlashcardLongQuestion(card) ==
  /\ ~IsNull(card)
  /\ LET c == Val(card)
         NonBlank(x) == Trim(x) # ""
     IN /\ Len(Trim(c.question)) >= 20
        /\ Len(Filter(c.options,
             {x \in Range(c.options) : NonBlank(x)})) >= 2

hasUsableFlashcard(card) ==
  /\ ~IsNull(card)
  /\ LET c == Val(card)
         NonBlank(x) == Trim(x) # ""
     IN /\ Len(Trim(c.question)) >= 10
        /\ Len(Filter(c.options,
             {x \in Range(c.options) : NonBlank(x)})) >= 2

hasUsableMascotScript(script) ==
  /\ ~IsNull(script)
  /\ Len(Val(script)) >= 4
  /\ \A i \in 1..4 : Len(Trim(Val(script)[i].text)) >= 8


-----------------------------------------------------------------------------
(* LLM provider gateway *)

\* A provider's answer to one call: the call fails with an error message, or
\* returns a text.  A text is its JSON content and the markdown fence around
\* it: body.parses says whether JSON.parse accepts the content, body.kind is
\* "null", "scalar" (a number, string or boolean) or "object", body.value the
\* object.
StripFences(text) == [text EXCEPT !.fence = "none"]

\* JSON.parse(text): threw is TRUE when the text is not JSON
JsonParse(text) ==
  [ threw |-> text.fence # "none" \/ ~text.body.parses,
    kind |-> text.body.kind,
    value |-> text.body.value ]

runGeminiJsonPrompt(reply) ==
  IF reply.ok THEN [threw |-> FALSE, text |-> StripFences(reply.text), message |-> ""]
  ELSE [threw |-> TRUE, text |-> reply.text, message |-> reply.error]

runGroqJsonPrompt(keys, reply) ==
  IF ~keys.groq THEN [threw |-> TRUE, text |-> reply.text, message |-> "groq_missing_api_key"]
  ELSE IF reply.ok THEN [threw |-> FALSE, text |-> StripFences(reply.text), message |-> ""]
  ELSE [threw |-> TRUE, text |-> reply.text, message |-> reply.error]

\* err?.message || "unknown"
ErrMessage(message) == IF message = "" THEN "unknown" ELSE message

\* the for-loop of runLlmJsonPrompt over providers[i..]; replies[p] is what
\* provider p answers if it is called; calls lists the providers called
RECURSIVE TryProviders(_, _, _, _, _, _)
TryProviders(keys, providers, i, replies, errors, calls) ==
  IF i > Len(providers)
  THEN [ threw |-> TRUE, text |-> replies.gemini.text,
         message |-> IF Len(errors) > 0 THEN Join(errors, " | ")
                     ELSE "no_llm_provider_configured",
         errors |-> errors, calls |-> calls ]
  ELSE LET provider == providers[i]
       IN IF provider = "gemini" /\ keys.gemini
          THEN LET r == runGeminiJsonPrompt(replies.gemini)
               IN IF ~r.threw
                  THEN [ threw |-> FALSE, text |-> r.text, message |-> "",
                         errors |-> errors, calls |-> Append(calls, "gemini") ]
                  ELSE TryProviders(keys, providers, i + 1, replies,
                                    Append(errors, "gemini:" \o ErrMessage(r.message)),
                                    Append(calls, "gemini"))
          ELSE IF provider = "groq" /\ keys.groq
          THEN LET r == runGroqJsonPrompt(keys, replies.groq)
               IN IF ~r.threw
                  THEN [ threw |-> FALSE, text |-> r.text, message |-> "",
                         errors |-> errors, calls |-> Append(calls, "groq") ]
                  ELSE TryProviders(keys, providers, i + 1, replies,
                                    Append(errors, "groq:" \o ErrMessage(r.message)),
                                    Append(calls, "groq"))
          ELSE TryProviders(keys, providers, i + 1, replies, errors, calls)

\* a gateway that ignores preferredProvider
runLlmJsonPromptGeminiFirst(keys, preferredProvider, replies) ==
  TryProviders(keys, <<"gemini", "groq">>, 1, replies, <<>>, <<>>)

\* a gateway that reports every failure as no_llm_provider_configured
runLlmJsonPromptPlainError(keys, preferredProvider, replies) ==
  LET providers == IF preferredProvider = "groq" THEN <<"groq", "gemini">>
                   ELSE <<"gemini", "groq">>
      r == TryProviders(keys, providers, 1, replies, <<>>, <<>>)
  IN [r EXCEPT !.message = IF r.threw THEN "no_llm_provider_configured" ELSE ""]

\* a gateway that calls every provider it tries a second time
runLlmJsonPromptCallsTwice(keys, preferredProvider, replies) ==
  LET providers == IF preferredProvider = "groq" THEN <<"groq", "gemini">>
                   ELSE <<"gemini", "groq">>
      r == TryProviders(keys, providers, 1, replies, <<>>, <<>>)
  IN [r EXCEPT !.calls = r.calls \o r.calls]

runLlmJsonPrompt(keys, preferredProvider, replies) ==
  LET providers == IF preferredProvider = "groq" THEN <<"groq", "gemini">>
                   ELSE <<"gemini", "groq">>
  IN TryProviders(keys, providers, 1, replies, <<>>, <<>>)

AnyKey(keys) == keys.gemini \/ keys.groq

\* what sanitizeDecision reads from a JSON scalar: every field is undefined
ScalarRaw ==
  [ status |-> "", confidence |-> NonNumeric, intervention |-> "",
    cooldown_seconds |-> NonNumeric, reason_codes |-> NotArray, flashcard |-> Null,
    mascot_script |-> NotArray, generation_failed |-> FALSE ]

-----------------------------------------------------------------------------
(* Inputs: the payloads the extension sends and the answers of the providers *)

OnTopicEvent ==
  [ domain |-> "physics.org", page_title |-> "entropy laws explained",
    is_allowed |-> "true", is_relevant_to_topic |-> "true", inactivity_seconds |-> 0,
    mouse_score |-> 80, headings |-> <<"second law">>, summary |-> "" ]
IdleEvent == [OnTopicEvent EXCEPT !.inactivity_seconds = 50, !.mouse_score = 0,
                                   !.is_relevant_to_topic = "undefined"]
OfftopicEvent ==
  [ domain |-> "video.com", page_title |-> "funny cats", is_allowed |-> "false",
    is_relevant_to_topic |-> "false", inactivity_seconds |-> 5, mouse_score |-> 10,
    headings |-> <<>>, summary |-> "" ]

MkPayload(trigger, requested, events) ==
  [ trigger_type |-> trigger, requested_intervention |-> requested,
    study_topic |-> "entropy laws", active_tab_id |-> "7", domain |-> "",
    page_title |-> "", events |-> events ]

Payloads ==
  { MkPayload("idle_allowed_site", "flashcard", <<OnTopicEvent, IdleEvent>>),
    MkPayload("idle_allowed_site_retry", "flashcard", <<OnTopicEvent>>),
    MkPayload("idle_allowed_site_retry", "mascot_chat", <<IdleEvent>>),
    MkPayload("offtopic_site", "mascot_chat", <<OfftopicEvent>>),
    MkPayload("offtopic_site_retry", "mascot_chat", <<OnTopicEvent>>),
    MkPayload("offtopic_site", "flashcard", <<OfftopicEvent>>),
    MkPayload("manual", "", <<>>) }

\* a raw decision object as the classification model may answer it
MkRaw(status, confidence, intervention, cooldown) ==
  [ status |-> status, confidence |-> confidence, intervention |-> intervention,
    cooldown_seconds |-> cooldown, reason_codes |-> Arr(<<"off_topic">>),
    flashcard |-> Null, mascot_script |-> NotArray, generation_failed |-> FALSE ]

LongCode == "repeated_switching_between_unrelated_entertainment_sites_detected"

UsableInlineCard ==
  [ question |-> "What is entropy?", options |-> Arr(<<"disorder", "speed">>),
    answer |-> "disorder", hint |-> "", explanation |-> "" ]
UnusableInlineCard == [UsableInlineCard EXCEPT !.question = "Entropy?"]

Line(speaker, text) == [speaker |-> speaker, text |-> text]

\* six turns, angel first, as the classification prompt asks for
SixTurnScript ==
  Arr(<< Line("angel", "entropy laws need you"), Line("devil", "scroll the feed later"),
         Line("angel", "review the second law"), Line("devil", "just one more video"),
         Line("angel", "open the entropy notes"), Line("devil", "skip it today") >>)
ThreeTurnScript ==
  Arr(<< Line("devil", "scroll the feed later"), Line("angel", "entropy laws need you"),
         Line("devil", "just one more video") >>)
ShortLineScript ==
  Arr(<< Line("devil", "scroll the feed later"), Line("angel", "no"),
         Line("devil", "just one more video"), Line("angel", "open the entropy notes") >>)

RawDecisions ==
  { [MkRaw("focused", Num(90), "none", Num(900)) EXCEPT
       !.mascot_script = SixTurnScript, !.generation_failed = TRUE],
    [MkRaw("distracted", Num(90), "flashcard", Num(900)) EXCEPT
       !.flashcard = Some(UsableInlineCard)],
    [MkRaw("distracted", Num(90), "mascot_chat", Num(900)) EXCEPT
       !.reason_codes = Arr(<<"a", "b", LongCode, "d", "e", "f">>)],
    [MkRaw("distracted", Num(45), "flashcard", NonNumeric) EXCEPT
       !.flashcard = Some(UnusableInlineCard), !.mascot_script = ThreeTurnScript],
    [MkRaw("distracted", Num(55), "mascot_chat", Num(125)) EXCEPT
       !.mascot_script = ShortLineScript],
    MkRaw("asleep", NonNumeric, "flashcard", Num(-50)),
    [MkRaw("severe_distraction", NonNumeric, "mascot_chat", Num(99990)) EXCEPT
       !.mascot_script = SixTurnScript],
    [MkRaw("focused", Num(-40), "popup", Num(124)) EXCEPT
       !.reason_codes = NotArray, !.mascot_script = Arr(<<>>)],
    [MkRaw("mild_distraction", Num(250), "mascot_chat", NonNumeric) EXCEPT
       !.mascot_script = SixTurnScript] }

NoBody == [parses |-> FALSE, kind |-> "scalar", value |-> ScalarRaw]
Failed(error) == [ok |-> FALSE, error |-> error, text |-> [fence |-> "none", body |-> NoBody]]
Answered(fence, body) == [ok |-> TRUE, error |-> "", text |-> [fence |-> fence, body |-> body]]
JsonObject(value) == [parses |-> TRUE, kind |-> "object", value |-> value]
JsonNull == [parses |-> TRUE, kind |-> "null", value |-> ScalarRaw]
JsonScalar == [parses |-> TRUE, kind |-> "scalar", value |-> ScalarRaw]

\* what the two providers answer to the classification prompt, if called
ClassifyReplies ==
  [ gemini : { Failed("timeout"), Answered("none", NoBody), Answered("none", JsonNull),
               Answered("none", JsonScalar) }
             \cup { Answered("json", JsonObject(raw)) : raw \in RawDecisions },
    groq : { Failed("groq_http_500:oops"),
             Answered("none", JsonObject(MkRaw("asleep", NonNumeric, "flashcard",
                                               Num(-50)))) } ]

GoodCard ==
  [ question |-> "What does entropy measure in a system?",
    options |-> Arr(<<"the heat", "the disorder", "the mass", "the color">>),
    answer |-> "B)", hint |-> "think of order", explanation |-> "entropy counts states" ]

\* what the two providers answer to a flashcard prompt, if called
FlashcardReplies ==
  [ groq : { Failed("groq_http_429:slow down"), Answered("none", JsonScalar),
             Answered("json", JsonObject(GoodCard)) },
    gemini : { Failed("timeout"), Answered("none", JsonObject(GoodCard)) } ]

GoodScript ==
  Arr(<< Line("devil", "skip entropy, scroll the feed"),
         Line("angel", "state the second law of entropy"),
         Line("devil", "entropy can wait, take a break"),
         Line("angel", "solve one entropy problem now") >>)
\* five turns, the speakers mislabelled
FiveTurnScript ==
  Arr(<< Line("angel", "great job on entropy so far"), Line("angel", "keep going with the laws"),
         Line("devil", "well done, entropy is easy"), Line("devil", "come back to the laws"),
         Line("angel", "one more line about entropy") >>)

ScriptObject(script) == JsonObject([mascot_script |-> script])

\* what the two providers answer to a mascot prompt, if called
MascotReplies ==
  [ groq : { Failed("groq_http_429:slow down"),
             Answered("json", ScriptObject(GoodScript)),
             Answered("none", ScriptObject(FiveTurnScript)),
             Answered("none", ScriptObject(ShortLineScript)) },
    gemini : { Failed("timeout"), Answered("none", ScriptObject(GoodScript)) } ]

KeyConfigs == { [gemini |-> FALSE, groq |-> FALSE], [gemini |-> TRUE, groq |-> TRUE] }

\* the same request sent for another (study_topic, active_tab_id) pair; a
\* missing study_topic or active_tab_id is ""
PairPayload(topic, tab) ==
  [ MkPayload("offtopic_site", "mascot_chat", <<OfftopicEvent>>) EXCEPT
      !.study_topic = topic, !.active_tab_id = tab ]

\* analyze requests of four pairs: a topic on tab 7, no topic on tab 7, the
\* topic "untitled" on tab 7, and the first topic without a tab
BucketPayloads ==
  { PairPayload("entropy laws", "7"), PairPayload("", "7"),
    PairPayload("untitled", "7"), PairPayload("entropy laws", "") }

\* the batch payload the collector posts to /api/parse for the first pair
ParsePayloads == { MkPayload("batch", "", <<OnTopicEvent>>) }

\* every payload an analyze request is made with
AnalyzePayloads == Payloads \cup BucketPayloads

\* last events that differ in the four fields the heuristic reads
FallbackEvents ==
  { [ OnTopicEvent EXCEPT !.is_allowed = a, !.is_relevant_to_topic = r,
                          !.inactivity_seconds = i, !.mouse_score = m ] :
      a \in {"true", "false", "undefined"},
      r \in {"true", "false", "null", "undefined"},
      i \in {0, 40, 41}, m \in {0, 24, 25, 90} }

\* payloads with one event, with an idle event before it, and with none
FallbackPayloads ==
  { MkPayload("manual", "none", <<e>>) : e \in FallbackEvents }
    \cup { MkPayload("manual", "none", <<IdleEvent, e>>) :
             e \in { x \in FallbackEvents : x.mouse_score = 90 } }
    \cup { MkPayload("manual", "none", <<>>) }

\* both keys, one key, no key
AllKeyConfigs == [gemini : BOOLEAN, groq : BOOLEAN]

\* what the two providers answer to a prompt given to the gateway directly
GatewayReplies ==
  [ gemini : { Failed("timeout"), Failed(""), Answered("none", NoBody),
               Answered("json", JsonObject(GoodCard)) },
    groq : { Failed("groq_http_429:slow down"), Answered("none", JsonScalar),
             Answered("json", JsonObject(GoodCard)) } ]

-----------------------------------------------------------------------------
(* Text results, computed once for the inputs above *)

ParsedBodies(replies) ==
  { [threw |-> FALSE, kind |-> reply.text.body.kind, value |-> reply.text.body.value] :
      reply \in { x \in {f.gemini : f \in replies} \cup {f.groq : f \in replies} :
                    x.ok /\ x.text.body.parses /\ x.text.body.kind # "null" } }

\* the fields of the summary that computeTopicRelevance reads
ProfileKey(latest) ==
  <<latest.study_topic, latest.page_title, latest.headings, latest.summary>>

ProfileTable ==
  [ k \in { ProfileKey(summarizeForModel(p)) : p \in AnalyzePayloads } |->
      computeTopicRelevance([ study_topic |-> k[1], page_title |-> k[2],
                              headings |-> k[3], summary |-> k[4] ]) ]

\* computeTopicRelevance(latest) of a payload
ProfileOf(payload) == ProfileTable[ProfileKey(summarizeForModel(payload))]

-----------------------------------------------------------------------------
(* Generation orchestrators *)

\* the card built from the parsed JSON value (null makes the field access throw)
CardFromParsed(parsed) ==
  IF parsed.kind = "scalar"
  THEN [question |-> "", options |-> <<>>, answer |-> "", hint |-> "", explanation |-> ""]
  ELSE LET c == parsed.value
       IN [ question |-> Take(c.question, 260),
            options |-> IF c.options.isArray
                        THEN [i \in 1..Min(4, Len(c.options.items)) |->
                                Take(c.options.items[i], 140)]
                        ELSE <<>>,
            answer |-> Take(c.answer, 180),
            hint |-> Take(c.hint, 220),
            explanation |-> Take(c.explanation, 360) ]

KnownCards ==
  { normalizeFlashcardAnswer(CardFromParsed(b)) : b \in ParsedBodies(FlashcardReplies) }

LowQualityTable ==
  [ x \in { <<c, summarizeForModel(p).study_topic, ProfileOf(p)>> :
              c \in KnownCards, p \in AnalyzePayloads } |->
      isLowQualityFlashcard(x[1], x[2], x[3]) ]

\* isLowQualityFlashcard(card, latest.study_topic, topicProfile)
LowQuality(card, studyTopic, profile) == LowQualityTable[<<card, studyTopic, profile>>]

\* the try/catch of generateFlashcardWithGemini, given the gateway's result
FlashcardAttempt(g, mode, studyTopic, profile) ==
  LET parsed == JsonParse(g.text)
  IN IF g.threw \/ parsed.threw \/ parsed.kind = "null"
     THEN [card |-> Null, generation_mode |-> mode,
           quality_reject_reason |-> "generation_error"]
     ELSE LET card == normalizeFlashcardAnswer(CardFromParsed(parsed))
          IN [ card |-> Some(card), generation_mode |-> mode,
               quality_reject_reason |->
                 IF LowQuality(card, studyTopic, profile)
                 THEN "generic_flashcard_relaxed_accept" ELSE "" ]

FlashcardUnavailable ==
  [card |-> Null, generation_mode |-> "llm_unavailable",
   quality_reject_reason |-> "missing_api_key"]

\* a first attempt that is context_aligned whatever the profile
FlashcardModesAlwaysAligned(profile) == <<"context_aligned", "topic_only">>

FlashcardModes(profile) ==
  << IF profile.context_quality = "good" THEN "context_aligned" ELSE "topic_only",
     "topic_only" >>

\* modes.indexOf(mode) + 1
IndexOfMode(modes, mode) == CHOOSE i \in 1..Len(modes) :
                              modes[i] = mode /\ \A j \in 1..(i - 1) : modes[j] # mode

\* the rescue try/catch of generateFlashcardWithRetries
FlashcardRescue(g, last, studyTopic, profile) ==
  LET parsed == JsonParse(g.text)
  IN IF g.threw \/ parsed.threw \/ parsed.kind = "null"
     THEN [ card |-> last.card, generation_mode |-> last.generation_mode,
            quality_reject_reason |-> last.quality_reject_reason, attempts |-> 3 ]
     ELSE LET card == normalizeFlashcardAnswer(CardFromParsed(parsed))
          IN [ card |-> Some(card), generation_mode |-> "topic_only_rescue",
               quality_reject_reason |->
                 IF ~LowQuality(card, studyTopic, profile) THEN ""
                 ELSE "generic_flashcard_relaxed_accept",
               attempts |-> 3 ]

\* the script built from the parsed JSON value (x?.text || "")
ScriptFromParsed(parsed) ==
  IF parsed.kind = "scalar" \/ ~parsed.value.mascot_script.isArray THEN Null
  ELSE LET items == parsed.value.mascot_script.items
       IN Some([i \in 1..Min(4, Len(items)) |->
                  [speaker |-> SpeakerAt(i), text |-> Take(items[i].text, 240)]])

KnownScripts == { ScriptFromParsed(b) : b \in ParsedBodies(MascotReplies) } \cup {Null}

StrictTable ==
  [ x \in { <<c, ProfileOf(p), summarizeForModel(p).domain,
              summarizeForModel(p).study_topic>> : c \in KnownScripts, p \in AnalyzePayloads } |->
      validateMascotScriptStrict(x[1], x[2], x[3], x[4]) ]

\* validateMascotScriptStrict(script, topicProfile, latest.domain, latest.study_topic)
Strict(script, profile, domain, studyTopic) ==
  StrictTable[<<script, profile, domain, studyTopic>>]

\* the try/catch of generateMascotScriptWithGemini, given the gateway's result
MascotAttempt(g) ==
  LET parsed == JsonParse(g.text)
  IN IF g.threw \/ parsed.threw \/ parsed.kind = "null" THEN Null
     ELSE ScriptFromParsed(parsed)

\* script.slice(0, 4).map(...) of the accepted script
ResliceScript(script) ==
  [i \in 1..Min(4, Len(script)) |->
     [speaker |-> SpeakerAt(i), text |-> Take(script[i].text, 240)]]

\* a loop that returns only the scripts the strict validator accepts
MascotVerdictStrictOnly(script, attempt, profile, domain, studyTopic) ==
  IF Strict(script, profile, domain, studyTopic)
  THEN [ accepted |-> TRUE, script |-> script, attempts |-> attempt,
         quality_reject_reason |-> "" ]
  ELSE [ accepted |-> FALSE, script |-> Null, attempts |-> attempt,
         quality_reject_reason |-> "" ]

\* what one pass of the attempt loop (or the rescue) returns for a script:
\* accepted is FALSE when the loop goes on
MascotVerdict(script, attempt, profile, domain, studyTopic) ==
  IF hasUsableMascotScript(script)
  THEN [ accepted |-> TRUE, script |-> Some(ResliceScript(Val(script))),
         attempts |-> attempt,
         quality_reject_reason |->
           IF Strict(script, profile, domain, studyTopic)
           THEN "" ELSE "mascot_script_relaxed_accept" ]
  ELSE IF Strict(script, profile, domain, studyTopic)
  THEN [ accepted |-> TRUE, script |-> script, attempts |-> attempt,
         quality_reject_reason |-> "" ]
  ELSE [ accepted |-> FALSE, script |-> Null, attempts |-> attempt,
         quality_reject_reason |-> "" ]

\* in the rescue the accepted script is returned as built, not resliced
MascotRescue(g, profile, domain, studyTopic) ==
  LET script == MascotAttempt(g)
      parsed == JsonParse(g.text)
      v == MascotVerdict(script, 3, profile, domain, studyTopic)
  IN IF g.threw \/ parsed.threw \/ parsed.kind = "null" \/ ~v.accepted
     THEN [ accepted |-> TRUE, script |-> Null, attempts |-> 3,
            quality_reject_reason |-> "mascot_script_validation_failed" ]
     ELSE [v EXCEPT !.script = script]

MascotUnavailable ==
  [ accepted |-> TRUE, script |-> Null, attempts |-> 3,
    quality_reject_reason |-> "mascot_script_validation_failed" ]

-----------------------------------------------------------------------------
(* POST /api/ai/analyze *)

IdleTriggers == {"idle_allowed_site", "idle_allowed_site_retry"}
OfftopicTriggers == {"offtopic_site", "offtopic_site_retry"}

\* the overrides without the floor on the confidence
ApplyOverridesNoFloor(decision, payload) ==
  LET d1 == IF /\ payload.requested_intervention = "flashcard"
               /\ payload.trigger_type \in IdleTriggers
            THEN [decision EXCEPT
                    !.intervention = "flashcard",
                    !.status = IF decision.status = "focused" THEN "mild_distraction"
                               ELSE decision.status,
                    !.cooldown_seconds = 15]
            ELSE decision
  IN IF /\ payload.requested_intervention = "mascot_chat"
        /\ payload.trigger_type \in OfftopicTriggers
     THEN [d1 EXCEPT
             !.intervention = "mascot_chat",
             !.status = IF d1.status = "focused" THEN "distracted" ELSE d1.status,
             !.cooldown_seconds = 15]
     ELSE d1

\* lines 885-909: the two trigger overrides
ApplyOverrides(decision, payload) ==
  LET d1 == IF /\ payload.requested_intervention = "flashcard"
               /\ payload.trigger_type \in IdleTriggers
            THEN [decision EXCEPT
                    !.intervention = "flashcard",
                    !.status = IF decision.status = "focused" THEN "mild_distraction"
                               ELSE decision.status,
                    !.confidence = Max(decision.confidence, 72),
                    !.cooldown_seconds = 15]
            ELSE decision
  IN IF /\ payload.requested_intervention = "mascot_chat"
        /\ payload.trigger_type \in OfftopicTriggers
     THEN [d1 EXCEPT
             !.intervention = "mascot_chat",
             !.status = IF d1.status = "focused" THEN "distracted" ELSE d1.status,
             !.confidence = Max(d1.confidence, 75),
             !.cooldown_seconds = 15]
     ELSE d1

\* the attachment that leaves generation_failed as the LLM wrote it when no
\* card is left
AttachFlashcardKeepsFlag(decision, generated) ==
  IF ~IsNull(generated.card)
  THEN [decision EXCEPT !.flashcard = generated.card, !.generation_failed = FALSE]
  ELSE IF hasUsableFlashcard(decision.flashcard)
  THEN [decision EXCEPT !.generation_failed = FALSE]
  ELSE [decision EXCEPT !.flashcard = Null]

\* lines 919-936: attach the generated card, else keep a usable inline card
AttachFlashcard(decision, generated) ==
  IF ~IsNull(generated.card)
  THEN [decision EXCEPT !.flashcard = generated.card, !.generation_failed = FALSE]
  ELSE IF hasUsableFlashcard(decision.flashcard)
  THEN [decision EXCEPT !.generation_failed = FALSE]
  ELSE [decision EXCEPT !.generation_failed = TRUE, !.flashcard = Null]

\* the attachment that leaves generation_failed as the LLM wrote it when no
\* script is left
AttachMascotKeepsFlag(decision, generated) ==
  IF ~IsNull(generated.script)
  THEN [decision EXCEPT !.mascot_script = generated.script, !.generation_failed = FALSE]
  ELSE IF hasUsableMascotScript(decision.mascot_script)
  THEN [decision EXCEPT !.generation_failed = FALSE]
  ELSE [decision EXCEPT !.mascot_script = Null]

\* lines 947-964: attach the generated script, else keep a usable inline script
AttachMascot(decision, generated) ==
  IF ~IsNull(generated.script)
  THEN [decision EXCEPT !.mascot_script = generated.script, !.generation_failed = FALSE]
  ELSE IF hasUsableMascotScript(decision.mascot_script)
  THEN [decision EXCEPT !.generation_failed = FALSE]
  ELSE [decision EXCEPT !.generation_failed = TRUE, !.mascot_script = Null]

\* the cooldown step without the exemption of the idle triggers
CooldownSuppressionAllTriggers(decision, payload, sinceLast) ==
  LET cooldownMs == (IF decision.cooldown_seconds = 0 THEN 90
                     ELSE decision.cooldown_seconds) * 1000
  IN IF decision.intervention # "none" /\ sinceLast < cooldownMs
     THEN [decision EXCEPT !.intervention = "none",
                           !.reason_codes = Append(@, "cooldown_active")]
     ELSE decision

\* a cooldown step that also drops the content of the decision it suppresses
CooldownSuppressionDropsContent(decision, payload, sinceLast) ==
  LET cooldownMs == (IF decision.cooldown_seconds = 0 THEN 90
                     ELSE decision.cooldown_seconds) * 1000
      isIdleFlashcardTrigger == payload.trigger_type \in IdleTriggers
  IN IF decision.intervention # "none" /\ ~isIdleFlashcardTrigger /\ sinceLast < cooldownMs
     THEN [decision EXCEPT !.intervention = "none", !.flashcard = Null,
                           !.mascot_script = Null,
                           !.reason_codes = Append(@, "cooldown_active")]
     ELSE decision

\* lines 973-979
CooldownSuppression(decision, payload, sinceLast) ==
  LET cooldownMs == (IF decision.cooldown_seconds = 0 THEN 90
                     ELSE decision.cooldown_seconds) * 1000
      isIdleFlashcardTrigger == payload.trigger_type \in IdleTriggers
  IN IF decision.intervention # "none" /\ ~isIdleFlashcardTrigger /\ sinceLast < cooldownMs
     THEN [decision EXCEPT !.intervention = "none",
                           !.reason_codes = Append(@, "cooldown_active")]
     ELSE decision

\* a gate that does not exempt the idle triggers
ConfidenceGatingIdleNotExempt(decision, payload) ==
  IF \/ (decision.intervention = "flashcard" /\ decision.confidence < 50)
     \/ (decision.intervention = "mascot_chat" /\ decision.confidence < 60)
  THEN [decision EXCEPT !.intervention = "none",
                        !.reason_codes = Append(@, "confidence_below_threshold")]
  ELSE decision

\* lines 981-990
ConfidenceGating(decision, payload) ==
  LET isIdleFlashcardTrigger == payload.trigger_type \in IdleTriggers
  IN IF \/ (~isIdleFlashcardTrigger /\ decision.intervention = "flashcard"
              /\ decision.confidence < 50)
        \/ (decision.intervention = "mascot_chat" /\ decision.confidence < 60)
     THEN [decision EXCEPT !.intervention = "none",
                           !.reason_codes = Append(@, "confidence_below_threshold")]
     ELSE decision

NoMeta == [generation_mode |-> "none", quality_reject_reason |-> "", generation_attempts |-> 0]
NoLast == [card |-> Null, generation_mode |-> "none", quality_reject_reason |-> "not_attempted"]
NoDecision == [ status |-> "", confidence |-> 0, intervention |-> "", cooldown_seconds |-> 0,
                reason_codes |-> <<>>, flashcard |-> Null, mascot_script |-> Null,
                generation_failed |-> FALSE ]
NoProfile == [ topic_family |-> "", topic_terms |-> <<>>, matched_terms |-> <<>>,
               relevance_score |-> 0, context_quality |-> "" ]
NoPayload == [ trigger_type |-> "", requested_intervention |-> "", study_topic |-> "",
               active_tab_id |-> "", domain |-> "", page_title |-> "", events |-> <<>> ]
NoResponse == [ status |-> 0, ok |-> FALSE, timestamp |-> 0, decision |-> NoDecision,
                debug |-> NoMeta, warning |-> "", error |-> "" ]

\* a connection on which no request was made yet
IdleRequest ==
  [ pc |-> "idle",            \* idle, classify, flashcard, mascot, done
    served |-> 0,             \* requests started on this connection
    payload |-> NoPayload,
    contextBucket |-> "detached",
    profile |-> NoProfile,
    base |-> NoDecision,      \* what callGeminiAnalyze returned
    decision |-> NoDecision,  \* the handler's `decision`
    attempt |-> 0,            \* the orchestrator attempt whose answer is awaited
    last |-> NoLast,          \* generateFlashcardWithRetries' `last`
    scripts |-> <<>>,         \* what the calls of generateMascotScriptWithGemini returned
    mascot |-> MascotUnavailable, \* what generateMascotScriptWithRetries returned
    attemptsMade |-> 0,       \* the generation prompts issued when it returned
    calls |-> <<>>,           \* the provider calls made for this request
    generated |-> NoDecision, \* `decision` when line 967 is reached
    cooled |-> NoDecision,    \* `decision` when line 981 is reached
    sinceLast |-> 0,          \* line 968
    response |-> NoResponse ]

\* lines 967-1003: cooldown, gating, stamp, append, respond
Finish(s, r, decision, meta) ==
  LET bucket == Deref(interventionState, r.payload, r.contextBucket)
      sinceLast == now - bucket.lastInterventionAt
      d1 == CooldownSuppression(decision, r.payload, sinceLast)
      d2 == ConfidenceGating(d1, r.payload)
      marked == IF d2.intervention # "none"
                THEN markIntervention(interventionState, r.payload, now)
                ELSE interventionState
  IN /\ interventionState' = saveRecentContext(marked, r.payload)
     /\ req' = [req EXCEPT ![s] =
                  [r EXCEPT !.pc = "done", !.decision = d2, !.generated = decision,
                            !.cooled = d1, !.sinceLast = sinceLast, !.attempt = 0,
                            !.attemptsMade = r.attempt,
                            !.response = [ status |-> 200, ok |-> TRUE, timestamp |-> now,
                                           decision |-> d2, debug |-> meta,
                                           warning |-> "", error |-> "" ]]]

\* a catch that answers the error instead of the fallback
CatchAnswersError(s, r, message) ==
  /\ interventionState' = interventionState
  /\ req' = [req EXCEPT ![s] =
               [r EXCEPT !.pc = "done",
                         !.response = [ status |-> 500, ok |-> FALSE, timestamp |-> now,
                                        decision |-> NoDecision, debug |-> NoMeta,
                                        warning |-> "", error |-> message ]]]

\* lines 1004-1013: the catch of the handler
Catch(s, r, message) ==
  /\ interventionState' = interventionState
  /\ req' = [req EXCEPT ![s] =
               [r EXCEPT !.pc = "done",
                         !.response = [ status |-> 200, ok |-> TRUE, timestamp |-> now,
                                        decision |-> fallbackDecision(r.payload),
                                        debug |-> NoMeta,
                                        warning |-> "ai_failed_fallback_used",
                                        error |-> message ]]]

\* lines 913-937, then the rest of the handler
AfterFlashcard(s, r, decision, generated) ==
  Finish(s, r, AttachFlashcard(decision, generated),
         [ generation_mode |-> generated.generation_mode,
           quality_reject_reason |-> generated.quality_reject_reason,
           generation_attempts |-> generated.attempts ])

\* lines 940-965, then the rest of the handler
AfterMascot(s, r, decision, generated) ==
  Finish(s, [r EXCEPT !.mascot = generated], AttachMascot(decision, generated),
         [ generation_mode |-> "none",
           quality_reject_reason |-> generated.quality_reject_reason,
           generation_attempts |-> generated.attempts ])

\* lines 885-965 once callGeminiAnalyze has returned `base`.  Without any API
\* key the orchestrators make no provider call and return at once (two
\* llm_unavailable attempts and a rescue that throws
\* no_llm_provider_configured), so the handler runs on to its end.
AfterClassify(s, r, base) ==
  LET decision == ApplyOverrides(base, r.payload)
      r1 == [r EXCEPT !.base = base, !.decision = decision]
  IN IF decision.intervention = "flashcard"
     THEN IF AnyKey(apiKeys)
          THEN /\ req' = [req EXCEPT ![s] = [r1 EXCEPT !.pc = "flashcard", !.attempt = 1]]
               /\ interventionState' = interventionState
          ELSE AfterFlashcard(s, [r1 EXCEPT !.last = FlashcardUnavailable], decision,
                              [ card |-> Null, generation_mode |-> "llm_unavailable",
                                quality_reject_reason |-> "missing_api_key",
                                attempts |-> 3 ])
     ELSE IF decision.intervention = "mascot_chat"
     THEN IF AnyKey(apiKeys)
          THEN /\ req' = [req EXCEPT ![s] = [r1 EXCEPT !.pc = "mascot", !.attempt = 1]]
               /\ interventionState' = interventionState
          ELSE AfterMascot(s, r1, decision, MascotUnavailable)
     ELSE Finish(s, r1, decision, NoMeta)

\* the analyze requests started so far, over all connections
RECURSIVE ServedBy(_)
ServedBy(slots) ==
  IF slots = {} THEN 0
  ELSE LET s == CHOOSE x \in slots : TRUE
       IN req[s].served + ServedBy(slots \ {s})

\* lines 868-883 up to the first await: capture the bucket, build the profile,
\* call callGeminiAnalyze (which returns the fallback at once without API key)
AnalyzeBegin(s, payload) ==
  /\ req[s].pc \in {"idle", "done"}
  /\ ServedBy(DOMAIN req) < MaxAnalyze
  /\ LET r == [IdleRequest EXCEPT
                 !.pc = "classify",
                 !.served = req[s].served + 1,
                 !.payload = payload,
                 !.contextBucket = getRecentContext(interventionState, payload),
                 !.profile = ProfileOf(payload)]
     IN IF AnyKey(apiKeys)
        THEN /\ req' = [req EXCEPT ![s] = r]
             /\ interventionState' = interventionState
        ELSE AfterClassify(s, r, fallbackDecision(payload))
  /\ UNCHANGED <<now, apiKeys, recentEvents, probe>>

\* lines 830-833 and on: the classification call has completed
AnalyzeClassified(s, replies) ==
  /\ req[s].pc = "classify"
  /\ LET r == req[s]
         g == runLlmJsonPrompt(apiKeys, "gemini", replies)
         parsed == JsonParse(g.text)
         r1 == [r EXCEPT !.calls = r.calls \o g.calls]
     IN IF g.threw THEN Catch(s, r1, g.message)
        ELSE IF parsed.threw THEN Catch(s, r1, "Unexpected token")
        ELSE IF parsed.kind = "null" THEN Catch(s, r1, "Cannot read properties of null")
        ELSE AfterClassify(s, r1, sanitizeDecision(IF parsed.kind = "scalar" THEN ScalarRaw
                                                   ELSE parsed.value))
  /\ UNCHANGED <<now, apiKeys, recentEvents, probe>>

\* generateFlashcardWithRetries: the gateway call of attempt 1, 2 or 3 (the
\* rescue) has completed
FlashcardReplied(s, replies) ==
  /\ req[s].pc = "flashcard"
  /\ LET r == req[s]
         g == runLlmJsonPrompt(apiKeys, "groq", replies)
         r1 == [r EXCEPT !.calls = r.calls \o g.calls]
         studyTopic == summarizeForModel(r.payload).study_topic
         modes == FlashcardModes(r.profile)
     IN IF r.attempt <= 2
        THEN LET last == FlashcardAttempt(g, modes[r.attempt], studyTopic, r.profile)
             IN IF ~IsNull(last.card)
                THEN AfterFlashcard(s, [r1 EXCEPT !.last = last], r.decision,
                       [ card |-> last.card, generation_mode |-> last.generation_mode,
                         quality_reject_reason |-> last.quality_reject_reason,
                         attempts |-> IndexOfMode(modes, modes[r.attempt]) ])
                ELSE /\ req' = [req EXCEPT ![s] =
                                  [r1 EXCEPT !.last = last, !.attempt = r.attempt + 1]]
                     /\ interventionState' = interventionState
        ELSE AfterFlashcard(s, r1, r.decision,
                            FlashcardRescue(g, r.last, studyTopic, r.profile))
  /\ UNCHANGED <<now, apiKeys, recentEvents, probe>>

\* generateMascotScriptWithRetries: the gateway call of attempt 1, 2 or 3 (the
\* rescue) has completed
MascotReplied(s, replies) ==
  /\ req[s].pc = "mascot"
  /\ LET r == req[s]
         g == runLlmJsonPrompt(apiKeys, "groq", replies)
         r1 == [r EXCEPT !.calls = r.calls \o g.calls,
                         !.scripts = Append(r.scripts, MascotAttempt(g))]
         latest == summarizeForModel(r.payload)
     IN IF r.attempt <= 2
        THEN LET v == MascotVerdict(MascotAttempt(g), r.attempt, r.profile,
                                    latest.domain, latest.study_topic)
             IN IF v.accepted
                THEN AfterMascot(s, r1, r.decision, v)
                ELSE /\ req' = [req EXCEPT ![s] = [r1 EXCEPT !.attempt = r.attempt + 1]]
                     /\ interventionState' = interventionState
        ELSE AfterMascot(s, r1, r.decision,
                         MascotRescue(g, r.profile, latest.domain, latest.study_topic))
  /\ UNCHANGED <<now, apiKeys, recentEvents, probe>>

-----------------------------------------------------------------------------
(* POST /api/parse and the clock *)

\* appendEvent (the log has one entry more, capped) and saveRecentContext;
\* at most `limit` requests are served
ParseWithin(limit, payload) ==
  /\ recentEvents < limit
  /\ recentEvents' = Min(recentEvents + 1, MAX_RECENT_EVENTS)
  /\ interventionState' = saveRecentContext(interventionState, payload)
  /\ UNCHANGED <<now, apiKeys, req, probe>>

Parse(payload) == ParseWithin(MaxParse, payload)

\* the clock steps taken so far (every elapsed time is a sum of steps in one way)
LongTick == 90000
ShortTick == 15000
TicksTaken == ((now - StartTime) \div LongTick) + (((now - StartTime) % LongTick) \div ShortTick)

Tick(d) ==
  /\ TicksTaken < MaxTicks
  /\ now' = now + d
  /\ UNCHANGED <<apiKeys, interventionState, recentEvents, req, probe>>

-----------------------------------------------------------------------------
(* The server: one connection whose requests follow one another *)

Init ==
  /\ now = StartTime
  /\ apiKeys \in KeyConfigs
  /\ interventionState = [k \in {} |-> FreshBucket]
  /\ recentEvents = 0
  /\ req = [s \in {1} |-> IdleRequest]
  /\ probe = Null

Next ==
  \/ \E s \in DOMAIN req, payload \in Payloads : AnalyzeBegin(s, payload)
  \/ \E s \in DOMAIN req, replies \in ClassifyReplies : AnalyzeClassified(s, replies)
  \/ \E s \in DOMAIN req, replies \in FlashcardReplies : FlashcardReplied(s, replies)
  \/ \E s \in DOMAIN req, replies \in MascotReplies : MascotReplied(s, replies)
  \/ \E d \in {ShortTick, LongTick} : Tick(d)

Spec == Init /\ [][Next]_vars

-----------------------------------------------------------------------------
(* The server with two connections whose requests overlap, and /api/parse *)

RacePayloads ==
  { MkPayload("offtopic_site", "mascot_chat", <<OfftopicEvent>>),
    MkPayload("offtopic_site", "flashcard", <<OfftopicEvent>>) }

RaceClassifyReplies ==
  [ gemini : { Failed("timeout"),
               Answered("json", JsonObject(
                 [MkRaw("distracted", Num(90), "flashcard", Num(900)) EXCEPT
                    !.flashcard = Some(UsableInlineCard)])) },
    groq : { Failed("groq_http_500:oops") } ]

RaceFlashcardReplies ==
  [ groq : { Failed("groq_http_429:slow down"), Answered("json", JsonObject(GoodCard)) },
    gemini : { Failed("timeout") } ]

RaceMascotReplies ==
  [ groq : { Failed("groq_http_429:slow down"), Answered("json", ScriptObject(GoodScript)) },
    gemini : { Failed("timeout") } ]

InitRace ==
  /\ now = StartTime
  /\ apiKeys = [gemini |-> TRUE, groq |-> TRUE]
  /\ interventionState = [k \in {} |-> FreshBucket]
  /\ recentEvents = 0
  /\ req = [s \in {1, 2} |-> IdleRequest]
  /\ probe = Null

NextRace ==
  \/ \E s \in DOMAIN req, payload \in RacePayloads : AnalyzeBegin(s, payload)
  \/ \E s \in DOMAIN req, replies \in RaceClassifyReplies : AnalyzeClassified(s, replies)
  \/ \E s \in DOMAIN req, replies \in RaceFlashcardReplies : FlashcardReplied(s, replies)
  \/ \E s \in DOMAIN req, replies \in RaceMascotReplies : MascotReplied(s, replies)
  \/ \E payload \in RacePayloads : Parse(payload)
  \/ \E d \in {ShortTick, LongTick} : Tick(d)

SpecRace == InitRace /\ [][NextRace]_vars

-----------------------------------------------------------------------------
(* The server with two connections, four sessions and a filled window *)

\* the first provider answers the mascot prompt with a script
BucketMascotReplies ==
  [ groq : { Answered("json", ScriptObject(GoodScript)) }, gemini : { Failed("timeout") } ]

NextBuckets ==
  \/ \E s \in DOMAIN req, payload \in BucketPayloads : AnalyzeBegin(s, payload)
  \/ \E s \in DOMAIN req, replies \in RaceClassifyReplies : AnalyzeClassified(s, replies)
  \/ \E s \in DOMAIN req, replies \in BucketMascotReplies : MascotReplied(s, replies)
  \/ \E payload \in ParsePayloads : ParseWithin(MaxWindowParse, payload)
  \/ Tick(LongTick)

SpecBuckets == InitRace /\ [][NextBuckets]_vars

-----------------------------------------------------------------------------
(* The server when every provider call is answered *)

LivePayloads ==
  { MkPayload("offtopic_site", "mascot_chat", <<OfftopicEvent>>),
    MkPayload("idle_allowed_site", "flashcard", <<OnTopicEvent, IdleEvent>>) }

\* each provider fails or answers the classification prompt with a decision
LiveClassifyReplies ==
  [ gemini : { Failed("timeout"),
               Answered("json", JsonObject(MkRaw("distracted", Num(90), "flashcard",
                                                 Num(900)))) },
    groq : { Failed("groq_http_500:oops"),
             Answered("none", JsonObject(MkRaw("distracted", Num(55), "mascot_chat",
                                               Num(30)))) } ]

\* a provider call that a request awaits returns or fails
ProviderReplied ==
  \/ \E s \in DOMAIN req, replies \in LiveClassifyReplies : AnalyzeClassified(s, replies)
  \/ \E s \in DOMAIN req, replies \in RaceFlashcardReplies : FlashcardReplied(s, replies)
  \/ \E s \in DOMAIN req, replies \in RaceMascotReplies : MascotReplied(s, replies)

NextLive ==
  \/ \E s \in DOMAIN req, payload \in LivePayloads : AnalyzeBegin(s, payload)
  \/ ProviderReplied
  \/ Tick(LongTick)

\* no provider call stays unanswered for ever
SpecLive == Init /\ [][NextLive]_vars /\ WF_vars(ProviderReplied)

-----------------------------------------------------------------------------
(* fallbackDecision and runLlmJsonPrompt called on their own *)

\* fallbackDecision(payload)
ApplyFallback(payload) ==
  /\ probe' = [ fn |-> "fallbackDecision", payload |-> payload,
                decision |-> fallbackDecision(payload) ]
  /\ UNCHANGED <<now, apiKeys, interventionState, recentEvents, req>>

\* runLlmJsonPrompt(prompt, preferredProvider), the providers answering
\* `replies` if they are called
CallGateway(preferredProvider, replies) ==
  /\ probe' = [ fn |-> "runLlmJsonPrompt", preferredProvider |-> preferredProvider,
                replies |-> replies,
                result |-> runLlmJsonPrompt(apiKeys, preferredProvider, replies) ]
  /\ UNCHANGED <<now, apiKeys, interventionState, recentEvents, req>>

\* the payload whose study topic, domain and profile the validators are given
ValidatorPayload == MkPayload("offtopic_site", "mascot_chat", <<OfftopicEvent>>)

\* card objects of the shape built at lines 437-443: with no, two, three,
\* four and five options and an answer that is a letter, a letter with
\* punctuation, a letter past the options, an option's text, a sentence or
\* nothing; and cards that differ in what the two validators read
ProbeCards ==
  LET FiveOptions == <<"the heat", "the disorder", "the mass", "the color", "the sound">>
      CardWith(question, options, answer) ==
        [ question |-> question, options |-> options, answer |-> answer,
          hint |-> "think of order", explanation |-> "entropy counts states" ]
      LetterCards ==
        { CardWith("What does entropy measure in a system?", SubSeq(FiveOptions, 1, n), a) :
            n \in {0, 2, 3, 4, 5},
            a \in {"B", "b)", " C. ", "D", "E", "the mass", "A measure of disorder", ""} }
      QualityCards ==
        { CardWith(q, o, a) :
            q \in { "", "Entropy?", "Why entropy?", "What is entropy?",
                    "What does entropy measure in a system?",
                    "Which of these options is the best one?" },
            o \in { <<>>, <<"the heat", "the disorder">>, <<"the heat", "  ", "the mass">>,
                    SubSeq(FiveOptions, 1, 4), <<"the heat", "the disorder", " ", "the color">>,
                    <<"the heat", "The Heat", "the mass", "the color">> },
            a \in { "", "the disorder", "the entropy of the universe" } }
  IN LetterCards \cup QualityCards

\* normalizeFlashcardAnswer, isLowQualityFlashcard and hasUsableFlashcard of
\* the cards above, computed once
CardTable ==
  [ card \in ProbeCards |->
      [ normalized |-> normalizeFlashcardAnswer(card),
        low |-> isLowQualityFlashcard(card, summarizeForModel(ValidatorPayload).study_topic,
                                      ProfileOf(ValidatorPayload)),
        usable |-> hasUsableFlashcard(Some(card)) ] ]

\* the three flashcard functions called with a card
CheckCard(card) ==
  /\ probe' = [ fn |-> "flashcard", card |-> card,
                normalized |-> CardTable[card].normalized,
                low |-> CardTable[card].low, usable |-> CardTable[card].usable ]
  /\ UNCHANGED <<now, apiKeys, interventionState, recentEvents, req>>

\* scripts of two devil lines and two angel lines: the devil tempts in both,
\* one or no line, the speakers are labelled right or wrong; and scripts with
\* a fifth turn, with three turns, with a short line, with filler lines, and
\* no script
ProbeScripts ==
  LET TemptingLines == << "skip entropy, scroll the feed", "entropy can wait, take a break" >>
      AffirmingLines == << "great job on entropy so far", "well done, entropy is easy" >>
      AngelLines == << "state the second law of entropy", "solve one entropy problem now" >>
      InOrder == <<"devil", "angel", "devil", "angel">>
      ScriptOf(devil, angel, speakers) ==
        << Line(speakers[1], devil[1]), Line(speakers[2], angel[1]),
           Line(speakers[3], devil[2]), Line(speakers[4], angel[2]) >>
  IN { Some(ScriptOf(d, a, s)) :
         d \in { TemptingLines, AffirmingLines,
                 <<AffirmingLines[1], TemptingLines[2]>>,
                 <<TemptingLines[1], AffirmingLines[2]>>,
                 <<"great job, stay focused here", "come back in one more minute">>,
                 <<"well done, now scroll the feed", AffirmingLines[2]>> },
         a \in { AngelLines, <<"  go on ", AngelLines[2]>>,
                 <<"you got this, keep studying", "good work, well done today">> },
         s \in { InOrder, <<"angel", "devil", "angel", "devil">>,
                 <<"devil", "angel", "devil", "narrator">> } }
       \cup { Some(Append(ScriptOf(TemptingLines, AngelLines, InOrder),
                          Line("devil", "one more line about entropy"))),
              Some(SubSeq(ScriptOf(TemptingLines, AngelLines, InOrder), 1, 3)),
              Some(<<>>), Null }

\* validateMascotScriptStrict and hasUsableMascotScript of the scripts above,
\* computed once
ScriptTable ==
  [ script \in ProbeScripts |->
      [ strict |-> validateMascotScriptStrict(script, ProfileOf(ValidatorPayload),
                                              summarizeForModel(ValidatorPayload).domain,
                                              summarizeForModel(ValidatorPayload).study_topic),
        usable |-> hasUsableMascotScript(script) ] ]

\* the two mascot validators called with a script
CheckScript(script) ==
  /\ probe' = [ fn |-> "mascot_script", script |-> script,
                strict |-> ScriptTable[script].strict,
                usable |-> ScriptTable[script].usable ]
  /\ UNCHANGED <<now, apiKeys, interventionState, recentEvents, req>>

\* summaries with no study topic, with topics that have no token (stopwords,
\* short words), with a topic of a known family and with topics of none, on
\* pages that say nothing, name the family "general", or name some or all of
\* the topic's words
RelevanceInputs ==
  { [ study_topic |-> t, page_title |-> p, headings |-> h, summary |-> "" ] :
      t \in { "", "the and of", "to be", "entropy laws", "react hooks", "medieval pottery",
              "entropy laws heat engines" },
      p \in { "", "study guide for the general exam", "entropy laws explained",
              "react hooks and state in code", "entropy laws of heat engines" },
      h \in { <<>>, <<"second law", "general study notes">> } }

\* computeTopicRelevance of the summaries above, computed once
RelevanceTable == [ modelInput \in RelevanceInputs |-> computeTopicRelevance(modelInput) ]

\* computeTopicRelevance called with a summary
ComputeRelevance(modelInput) ==
  /\ probe' = [ fn |-> "computeTopicRelevance", modelInput |-> modelInput,
                profile |-> RelevanceTable[modelInput] ]
  /\ UNCHANGED <<now, apiKeys, interventionState, recentEvents, req>>

InitFunctions ==
  /\ now = StartTime
  /\ apiKeys \in AllKeyConfigs
  /\ interventionState = [k \in {} |-> FreshBucket]
  /\ recentEvents = 0
  /\ req = [s \in {1} |-> IdleRequest]
  /\ probe = Null

NextFunctions ==
  \/ \E payload \in FallbackPayloads : ApplyFallback(payload)
  \/ \E preferredProvider \in {"gemini", "groq", ""}, replies \in GatewayReplies :
        CallGateway(preferredProvider, replies)
  \/ \E card \in ProbeCards : CheckCard(card)
  \/ \E script \in ProbeScripts : CheckScript(script)
  \/ \E modelInput \in RelevanceInputs : ComputeRelevance(modelInput)

SpecFunctions == InitFunctions /\ [][NextFunctions]_vars

-----------------------------------------------------------------------------
(* What a client observes of an analyze request *)

\* the request on connection s was answered
Responded(s) == req[s].pc = "done"
\* callGeminiAnalyze threw: the handler never got a base decision
Threw(s) == Responded(s) /\ req[s].base = NoDecision
\* the try block ran to its end
Classified(s) == Responded(s) /\ req[s].base # NoDecision
\* res.json(...).decision
Decision(s) == req[s].response.decision
\* the step answers the request on connection s
Finishing(s) ==
  /\ req'[s].pc = "done"
  /\ req[s].pc # "done" \/ req'[s].served # req[s].served
\* the events of the bucket stored in map for the payload's key (none without one)
EventsIn(map, payload) ==
  LET found == MapGet(map, sessionKey(payload))
  IN IF IsNull(found) THEN <<>> ELSE Val(found).events
\* lastInterventionAt of the bucket stored in map for the payload's key
LastIn(map, payload) ==
  LET found == MapGet(map, sessionKey(payload))
  IN IF IsNull(found) THEN 0 ELSE Val(found).lastInterventionAt
\* lastInterventionAt of the bucket stored for the payload's key (0 without one)
StoredLast(payload) ==
  LET found == MapGet(interventionState, sessionKey(payload))
  IN IF IsNull(found) THEN 0 ELSE Val(found).lastInterventionAt

-----------------------------------------------------------------------------
(* Properties of POST /api/ai/analyze *)

\* C1: every decision an analyze request returns, on every path (sanitized,
\* overridden, heuristic fallback, exception fallback), has its confidence in
\* [0, 1] (0..100 hundredths) and its cooldown_seconds in [10, 180], whatever
\* the LLM wrote.
ConfidenceAndCooldownInRange ==
  \A s \in DOMAIN req :
    Responded(s) => /\ Decision(s).confidence \in 0..100
                    /\ Decision(s).cooldown_seconds \in 10..180

\* a decision whose LLM cooldown was 9999 s and whose confidence was no number
ClampedDecisionReturned ==
  \E s \in DOMAIN req :
    /\ Classified(s)
    /\ req[s].calls # <<>>
    /\ Decision(s).cooldown_seconds = 180
    /\ Decision(s).confidence = 50

\* C2: a returned decision with intervention flashcard has a flashcard or
\* generation_failed, and one with intervention mascot_chat has a mascot_script
\* or generation_failed.
ContentOrGenerationFailed ==
  \A s \in DOMAIN req :
    Responded(s) =>
      /\ Decision(s).intervention = "flashcard" =>
           ~IsNull(Decision(s).flashcard) \/ Decision(s).generation_failed
      /\ Decision(s).intervention = "mascot_chat" =>
           ~IsNull(Decision(s).mascot_script) \/ Decision(s).generation_failed

\* a flashcard intervention delivered after all three provider attempts failed
FlashcardDeliveredWithoutCard ==
  \E s \in DOMAIN req :
    /\ Classified(s)
    /\ req[s].calls # <<>>
    /\ req[s].response.debug.generation_attempts = 3
    /\ Decision(s).intervention = "flashcard"
    /\ IsNull(Decision(s).flashcard)
    /\ Decision(s).generation_failed

CooldownSuppressesNonIdle ==
  [][\A s \in DOMAIN req :
       ( /\ req'[s] # req[s]
         /\ Classified(s)'
         /\ req'[s].payload.trigger_type \notin IdleTriggers
         /\ req'[s].generated.intervention # "none"
         /\ now - StoredLast(req'[s].payload) < req'[s].generated.cooldown_seconds * 1000 )
       => /\ Decision(s)'.intervention = "none"
          /\ "cooldown_active" \in Range(Decision(s)'.reason_codes)]_vars

\* C5: a request with trigger idle_allowed_site(_retry) is never suppressed by
\* cooldown: its reason_codes are those it had before the cooldown step, plus
\* confidence_below_threshold at most, and its intervention changes only by
\* the confidence gate of mascot_chat.
IdleTriggerNeverCooldownSuppressed ==
  \A s \in DOMAIN req :
    Classified(s) /\ req[s].payload.trigger_type \in IdleTriggers =>
      LET g == req[s].generated
          d == Decision(s)
      IN /\ d.reason_codes \in { g.reason_codes,
                                 Append(g.reason_codes, "confidence_below_threshold") }
         /\ "cooldown_active" \notin Range(d.reason_codes)
         /\ d.intervention # g.intervention =>
              g.intervention = "mascot_chat" /\ g.confidence < 60

\* an idle-trigger request that delivers although the bucket was stamped less
\* than its cooldown ago
IdleDeliveredWithinCooldown ==
  \E s \in DOMAIN req :
    /\ Classified(s)
    /\ req[s].payload.trigger_type \in IdleTriggers
    /\ req[s].contextBucket = "shared"
    /\ req[s].sinceLast < req[s].generated.cooldown_seconds * 1000
    /\ Decision(s).intervention # "none"

\* C6: for one key and triggers that are not idle, two requests never both
\* return an intervention other than none when the second one's cooldown check
\* comes less than its cooldown_seconds after the first one's stamp.  (The
\* check, the stamp and the response's timestamp of a request are taken
\* without an await in between.)
NoTwoInterventionsWithinCooldown ==
  \A s, t \in DOMAIN req :
    ( /\ s # t
      /\ Classified(s) /\ Classified(t)
      /\ sessionKey(req[s].payload) = sessionKey(req[t].payload)
      /\ req[s].payload.trigger_type \notin IdleTriggers
      /\ req[t].payload.trigger_type \notin IdleTriggers
      /\ Decision(s).intervention # "none"
      /\ req[s].response.timestamp <= req[t].response.timestamp
      /\ req[t].response.timestamp - req[s].response.timestamp
           < req[t].generated.cooldown_seconds * 1000 )
    => Decision(t).intervention = "none"

\* C7 as stated: without any API key every response carries the heuristic
\* fallback decision, with intervention none and generation_failed (and status
\* distracted when the latest inactivity_seconds is 50), whatever the trigger
\* and the requested intervention.
NoKeysAlwaysFallback ==
  \A s \in DOMAIN req :
    Responded(s) /\ ~AnyKey(apiKeys) =>
      /\ Decision(s) = fallbackDecision(req[s].payload)
      /\ Decision(s).intervention = "none"
      /\ Decision(s).generation_failed
      /\ summarizeForModel(req[s].payload).inactivity_seconds = 50 =>
           Decision(s).status = "distracted"

\* C7 as amended: without any API key every response has generation_failed,
\* no flashcard and no mascot_script (and status distracted when the latest
\* inactivity_seconds is 50); it is the heuristic fallback decision with
\* intervention none unless a trigger override applies: flashcard requested on
\* an idle trigger gives intervention flashcard, confidence 0.72, cooldown 15
\* and mild_distraction for focused; mascot_chat requested on an off-topic
\* trigger gives confidence 0.75, cooldown 15, status distracted and
\* intervention mascot_chat, or none with cooldown_active less than 15 s after
\* the last intervention.
NoKeysDecision ==
  \A s \in DOMAIN req :
    Responded(s) /\ ~AnyKey(apiKeys) =>
      LET payload == req[s].payload
          d == Decision(s)
          f == fallbackDecision(payload)
          idle == /\ payload.requested_intervention = "flashcard"
                  /\ payload.trigger_type \in IdleTriggers
          off == /\ payload.requested_intervention = "mascot_chat"
                 /\ payload.trigger_type \in OfftopicTriggers
      IN /\ d.generation_failed /\ IsNull(d.flashcard) /\ IsNull(d.mascot_script)
         /\ summarizeForModel(payload).inactivity_seconds = 50 => d.status = "distracted"
         /\ ~idle /\ ~off => d = f /\ d.intervention = "none"
         /\ idle => d = [f EXCEPT !.intervention = "flashcard",
                                  !.status = IF f.status = "focused"
                                             THEN "mild_distraction" ELSE f.status,
                                  !.confidence = 72,
                                  !.cooldown_seconds = 15]
         /\ off => /\ d.confidence = 75 /\ d.cooldown_seconds = 15
                   /\ d.status = "distracted"
                   /\ IF req[s].sinceLast < 15000
                      THEN /\ d.intervention = "none"
                           /\ d.reason_codes = Append(f.reason_codes, "cooldown_active")
                      ELSE /\ d.intervention = "mascot_chat"
                           /\ d.reason_codes = f.reason_codes

\* without API keys, a flashcard intervention for an idle user
NoKeysFlashcardDelivered ==
  \E s \in DOMAIN req :
    /\ Responded(s) /\ ~AnyKey(apiKeys)
    /\ summarizeForModel(req[s].payload).inactivity_seconds = 50
    /\ Decision(s).intervention = "flashcard"

\* C8: a request with requested_intervention flashcard and an idle trigger
\* whose classification call returns gets intervention flashcard, confidence
\* >= 0.72, cooldown_seconds 15 and the base status, mild_distraction standing
\* for focused, whatever the base intervention and confidence and whatever
\* lastInterventionAt.
IdleFlashcardOverride ==
  \A s \in DOMAIN req :
    ( /\ Classified(s)
      /\ req[s].payload.requested_intervention = "flashcard"
      /\ req[s].payload.trigger_type \in IdleTriggers )
    => /\ Decision(s).intervention = "flashcard"
       /\ Decision(s).confidence >= 72
       /\ Decision(s).cooldown_seconds = 15
       /\ Decision(s).status # "focused"
       /\ Decision(s).status = IF req[s].base.status = "focused" THEN "mild_distraction"
                               ELSE req[s].base.status

\* the override turns a focused base decision without intervention into a
\* flashcard, the bucket having been stamped in the same instant
IdleFlashcardForced ==
  \E s \in DOMAIN req :
    /\ Classified(s)
    /\ req[s].payload.requested_intervention = "flashcard"
    /\ req[s].payload.trigger_type \in IdleTriggers
    /\ req[s].calls # <<>>
    /\ req[s].base.status = "focused"
    /\ req[s].base.intervention = "none"
    /\ req[s].base.confidence < 72
    /\ req[s].contextBucket = "shared"
    /\ req[s].sinceLast = 0

\* C9: a request with requested_intervention mascot_chat and an off-topic
\* trigger whose classification call returns gets confidence >= 0.75,
\* cooldown_seconds 15 and a status other than focused, is never suppressed by
\* the confidence gate, and its intervention is mascot_chat unless less than
\* 15 s passed since the lastInterventionAt of its key's bucket, when it is
\* none with cooldown_active.
OfftopicMascotOverride ==
  [][\A s \in DOMAIN req :
       ( /\ req'[s] # req[s]
         /\ Classified(s)'
         /\ req'[s].payload.requested_intervention = "mascot_chat"
         /\ req'[s].payload.trigger_type \in OfftopicTriggers )
       => /\ Decision(s)'.confidence >= 75
          /\ Decision(s)'.cooldown_seconds = 15
          /\ Decision(s)'.status # "focused"
          /\ "confidence_below_threshold" \notin Range(Decision(s)'.reason_codes)
          /\ IF now - StoredLast(req'[s].payload) < 15000
             THEN /\ Decision(s)'.intervention = "none"
                  /\ "cooldown_active" \in Range(Decision(s)'.reason_codes)
             ELSE Decision(s)'.intervention = "mascot_chat"]_vars

\* C10: every analyze request is answered with HTTP 200 and ok = true, and when
\* the classification threw (every configured provider failed, or its text was
\* no JSON object) the decision is the heuristic fallback decision of the
\* payload: intervention none, generation_failed.
AnalyzeAlwaysAnswersOk ==
  \A s \in DOMAIN req :
    Responded(s) =>
      /\ req[s].response.status = 200
      /\ req[s].response.ok
      /\ Threw(s) => /\ Decision(s) = fallbackDecision(req[s].payload)
                     /\ Decision(s).intervention = "none"
                     /\ Decision(s).generation_failed
                     /\ Decision(s).confidence \in {62, 66}

\* both providers were called and both failed
BothProvidersFailed ==
  \E s \in DOMAIN req :
    /\ Threw(s)
    /\ req[s].calls = <<"gemini", "groq">>
    /\ req[s].response.warning = "ai_failed_fallback_used"

-----------------------------------------------------------------------------
(* Properties of the session context buckets *)

\* C11: every analyze request that is answered has appended exactly one
\* summary of its payload to the window of the bucket of its session key (the
\* window is the old one with the summary at its end, cut to the last 15),
\* whatever the outcome, the exception fallback included.
EveryAnalyzeAppendsSnapshot ==
  [][\A s \in DOMAIN req :
       Finishing(s) =>
         LET payload == req'[s].payload
             old == EventsIn(interventionState, payload)
             pushed == Append(old, summarizeForModel(payload))
         IN EventsIn(interventionState', payload) =
              IF Len(pushed) > 15 THEN SubSeq(pushed, Len(pushed) - 14, Len(pushed))
              ELSE pushed]_vars

\* C12: a step stamps a bucket's lastInterventionAt with the current time if
\* and only if it answers an analyze request of that bucket's key with an
\* intervention other than none; /api/parse requests, requests answered with
\* none and requests answered by the exception fallback leave every
\* lastInterventionAt as it was.
StampOnlyOnIntervention ==
  [][/\ \A s \in DOMAIN req :
          (Finishing(s) /\ req'[s].response.decision.intervention # "none")
            => LastIn(interventionState', req'[s].payload) = now
     /\ \A q \in BucketPayloads \cup ParsePayloads :
          LastIn(interventionState', q) # LastIn(interventionState, q)
            => /\ LastIn(interventionState', q) = now
               /\ recentEvents' = recentEvents
               /\ \E s \in DOMAIN req :
                    /\ Finishing(s)
                    /\ sessionKey(req'[s].payload) = sessionKey(q)
                    /\ req'[s].response.warning = ""
                    /\ req'[s].response.decision.intervention # "none"]_vars

\* after a parse request, an exception fallback and a later clock step, a
\* delivered intervention stamped the bucket with the time of its answer
StampedAfterParseAndFallback ==
  /\ recentEvents > 0
  /\ now > StartTime
  /\ \E s \in DOMAIN req, u \in DOMAIN req :
       /\ Responded(s) /\ Responded(u)
       /\ req[u].response.warning = "ai_failed_fallback_used"
       /\ Decision(s).intervention = "mascot_chat"
       /\ req[s].response.timestamp = now
       /\ StoredLast(req[s].payload) = now

\* C13: every bucket holds at most 15 events, and each step either leaves a
\* window as it was or puts one summary of a payload of that key at its end,
\* dropping the oldest entry when there were 15 already: a parse request and
\* an analyze request that ran to its end each add their summary to the
\* window as it is stored then, also when two requests of one key overlap.
WindowIsLastFifteenInOrder ==
  [][/\ \A q \in BucketPayloads \cup ParsePayloads :
          LET old == EventsIn(interventionState, q)
              new == EventsIn(interventionState', q)
          IN /\ Len(new) <= 15
             /\ new # old =>
                  \E p \in BucketPayloads \cup ParsePayloads :
                    /\ sessionKey(p) = sessionKey(q)
                    /\ new = (IF Len(old) < 15 THEN old ELSE Tail(old))
                               \o <<summarizeForModel(p)>>
     /\ \A s \in DOMAIN req :
          (Finishing(s) /\ req'[s].response.warning = "")
            => LET old == EventsIn(interventionState, req'[s].payload)
               IN EventsIn(interventionState', req'[s].payload) =
                    (IF Len(old) < 15 THEN old ELSE Tail(old))
                      \o <<summarizeForModel(req'[s].payload)>>
     /\ recentEvents' # recentEvents
          => \E p \in ParsePayloads :
               LET old == EventsIn(interventionState, p)
               IN EventsIn(interventionState', p) =
                    (IF Len(old) < 15 THEN old ELSE Tail(old))
                      \o <<summarizeForModel(p)>>]_vars

\* the window is full of parse snapshots: the snapshot of an analyze request
\* of the same key, appended before them, was the oldest and has been dropped
OldestSnapshotEvicted ==
  \E s \in DOMAIN req, p \in ParsePayloads :
    /\ Responded(s) /\ req[s].response.warning = ""
    /\ sessionKey(req[s].payload) = sessionKey(p)
    /\ Len(EventsIn(interventionState, p)) = 15
    /\ \A i \in 1..15 : EventsIn(interventionState, p)[i] = summarizeForModel(p)

\* C19: a step changes the bucket (events or lastInterventionAt) that belongs
\* to a (study_topic, active_tab_id) pair only if it serves a request of that
\* same pair, an empty or missing topic or tab id being a pair of its own.
NoCrossPairInterference ==
  [][\A q \in BucketPayloads :
       MapGet(interventionState', sessionKey(q)) # MapGet(interventionState, sessionKey(q))
         => \/ \E s \in DOMAIN req :
                 /\ Finishing(s)
                 /\ req'[s].payload.study_topic = q.study_topic
                 /\ req'[s].payload.active_tab_id = q.active_tab_id
            \/ /\ recentEvents' # recentEvents
               /\ \E p \in ParsePayloads : /\ p.study_topic = q.study_topic
                                            /\ p.active_tab_id = q.active_tab_id]_vars

-----------------------------------------------------------------------------
(* Properties of the decision's reason codes and of confidence gating *)

\* C14: in every decision an analyze request returns, reason_codes has at
\* most 5 entries of at most 60 characters each, also when cooldown_active or
\* confidence_below_threshold was appended by a suppression step.
ReasonCodesBounded ==
  \A s \in DOMAIN req :
    Responded(s) =>
      /\ Len(Decision(s).reason_codes) <= 5
      /\ \A i \in 1..Len(Decision(s).reason_codes) :
           Len(Decision(s).reason_codes[i]) <= 60

\* C15: with `cooled` the decision as cooldown suppression left it, the
\* returned decision is none with confidence_below_threshold appended exactly
\* when cooled is a flashcard on a trigger that is no idle-allowed-site
\* variant with confidence < 0.5, or a mascot_chat with confidence < 0.6; in
\* every other case the returned decision is cooled itself.
ConfidenceGatingExact ==
  \A s \in DOMAIN req :
    Classified(s) =>
      LET cooled == req[s].cooled
          idle == req[s].payload.trigger_type \in {"idle_allowed_site",
                                                   "idle_allowed_site_retry"}
          low == \/ cooled.intervention = "flashcard" /\ ~idle /\ cooled.confidence < 50
                 \/ cooled.intervention = "mascot_chat" /\ cooled.confidence < 60
      IN IF low
         THEN /\ Decision(s).intervention = "none"
              /\ Decision(s).reason_codes =
                   Append(cooled.reason_codes, "confidence_below_threshold")
              /\ [Decision(s) EXCEPT !.intervention = "", !.reason_codes = <<>>]
                   = [cooled EXCEPT !.intervention = "", !.reason_codes = <<>>]
         ELSE Decision(s) = cooled

\* a mascot_chat of confidence 0.55 that the cooldown let through was gated
\* to none
LowConfidenceGatedToNone ==
  \E s \in DOMAIN req :
    /\ Classified(s)
    /\ req[s].cooled.intervention = "mascot_chat"
    /\ req[s].cooled.confidence = 55
    /\ Decision(s).intervention = "none"
    /\ "confidence_below_threshold" \in Range(Decision(s).reason_codes)

-----------------------------------------------------------------------------
(* Properties of fallbackDecision and of runLlmJsonPrompt *)

\* C16: the heuristic fallback decision of a payload has status distracted
\* exactly when its snapshot (the last event sent, or nothing) has
\* inactivity_seconds > 40, or is_relevant_to_topic false, or is_allowed false
\* together with mouse_score < 0.25; for every other snapshot it is focused.
FallbackDistractedExactly ==
  (probe # Null /\ probe.fn = "fallbackDecision") =>
    LET events == probe.payload.events
        sent == Len(events) > 0
        snapshot == events[Len(events)]
        distracted ==
          /\ sent
          /\ \/ snapshot.inactivity_seconds > 40
             \/ snapshot.is_relevant_to_topic = "false"
             \/ snapshot.is_allowed = "false" /\ snapshot.mouse_score < 25
    IN probe.decision.status = IF distracted THEN "distracted" ELSE "focused"

\* C17: one runLlmJsonPrompt call calls only providers that have credentials,
\* each at most once, the preferred one before the other; every call but the
\* last one made has failed, a call that succeeds is the last one and its
\* output (without the fence) is what the gateway returns, and a configured
\* provider is left out only after a success.
ProvidersTriedInOrder ==
  (probe # Null /\ probe.fn = "runLlmJsonPrompt") =>
    LET order == IF probe.preferredProvider = "groq" THEN <<"groq", "gemini">>
                 ELSE <<"gemini", "groq">>
        calls == probe.result.calls
        ok(i) == probe.replies[calls[i]].ok
    IN /\ Len(calls) <= 2
       /\ \A i \in 1..Len(calls) : apiKeys[calls[i]]
       /\ Len(calls) = 2 => calls = order
       /\ Len(calls) = 1 => \/ calls[1] = order[1]
                            \/ calls[1] = order[2] /\ ~apiKeys[order[1]]
       /\ \A i \in 1..Len(calls) :
            ok(i) => /\ i = Len(calls)
                     /\ ~probe.result.threw
                     /\ probe.result.text.body = probe.replies[calls[i]].text.body
                     /\ probe.result.text.fence = "none"
       /\ ~probe.result.threw => Len(calls) > 0 /\ ok(Len(calls))
       /\ \A i \in 1..2 :
            (apiKeys[order[i]] /\ order[i] \notin Range(calls))
              => i = 2 /\ calls = <<order[1]>> /\ ~probe.result.threw

\* the preferred provider groq failed and gemini, called next, answered
OtherProviderAnswered ==
  /\ probe # Null /\ probe.fn = "runLlmJsonPrompt"
  /\ probe.preferredProvider = "groq"
  /\ probe.result.calls = <<"groq", "gemini">>
  /\ ~probe.result.threw

\* C18: runLlmJsonPrompt fails with no_llm_provider_configured exactly when
\* neither provider has credentials; with a provider configured it fails
\* exactly when the call of every configured provider failed, and its message
\* is then the entries provider:message of the failed providers, in the order
\* tried, joined by " | ".
GatewayFailureMessage ==
  (probe # Null /\ probe.fn = "runLlmJsonPrompt") =>
    LET order == IF probe.preferredProvider = "groq" THEN <<"groq", "gemini">>
                 ELSE <<"gemini", "groq">>
        result == probe.result
        entry(p) == p \o ":" \o (IF probe.replies[p].error = "" THEN "unknown"
                                 ELSE probe.replies[p].error)
        allFailed == \A p \in {"gemini", "groq"} : apiKeys[p] => ~probe.replies[p].ok
    IN /\ (result.threw /\ result.message = "no_llm_provider_configured")
            <=> (~apiKeys.gemini /\ ~apiKeys.groq)
       /\ (apiKeys.gemini \/ apiKeys.groq) =>
            /\ result.threw <=> allFailed
            /\ result.threw =>
                 result.message =
                   IF apiKeys[order[1]] /\ apiKeys[order[2]]
                   THEN entry(order[1]) \o " | " \o entry(order[2])
                   ELSE IF apiKeys[order[1]] THEN entry(order[1])
                   ELSE entry(order[2])

\* both providers are configured and both failed, groq first
BothFailuresReported ==
  /\ probe # Null /\ probe.fn = "runLlmJsonPrompt"
  /\ probe.result.threw
  /\ probe.result.message = "groq:groq_http_429:slow down | gemini:unknown"

-----------------------------------------------------------------------------
(* Properties of generateFlashcardWithRetries *)

\* C20: with a provider configured, attempt 1 is made in mode context_aligned
\* iff profile.context_quality is good and else in topic_only; attempt 2 is
\* made, in mode topic_only, only after attempt 1 gave no card; the rescue
\* prompt is issued only after both attempts gave no card; the first card an
\* attempt gives is returned with that attempt's mode, also when it is tagged
\* generic_flashcard_relaxed_accept, and a card of the rescue is returned
\* with generation_mode topic_only_rescue.
FlashcardRetriesSequence ==
  \A s \in DOMAIN req :
    LET r == req[s]
        first == IF r.profile.context_quality = "good" THEN "context_aligned"
                 ELSE "topic_only"
        noCard(mode) == /\ IsNull(r.last.card)
                        /\ r.last.generation_mode = mode
                        /\ r.last.quality_reject_reason = "generation_error"
    IN /\ (r.pc = "flashcard" /\ r.attempt = 1) => r.last = NoLast
       /\ (r.pc = "flashcard" /\ r.attempt = 2) => noCard(first)
       /\ (r.pc = "flashcard" /\ r.attempt = 3) => noCard("topic_only")
       /\ (Classified(s) /\ r.generated.intervention = "flashcard"
             /\ (apiKeys.gemini \/ apiKeys.groq))
            => LET debug == r.response.debug
               IN \/ \* an attempt gave a card
                     /\ ~IsNull(r.last.card)
                     /\ r.last.generation_mode \in {first, "topic_only"}
                     /\ debug.generation_mode = r.last.generation_mode
                     /\ debug.quality_reject_reason = r.last.quality_reject_reason
                     /\ debug.quality_reject_reason
                          \in {"", "generic_flashcard_relaxed_accept"}
                     /\ debug.generation_attempts \in {1, 2}
                  \/ \* the rescue gave a card
                     /\ noCard("topic_only")
                     /\ debug.generation_mode = "topic_only_rescue"
                     /\ debug.quality_reject_reason
                          \in {"", "generic_flashcard_relaxed_accept"}
                     /\ debug.generation_attempts = 3
                  \/ \* nothing gave a card
                     /\ noCard("topic_only")
                     /\ debug.generation_mode = "topic_only"
                     /\ debug.quality_reject_reason = "generation_error"
                     /\ debug.generation_attempts = 3

\* both attempts gave no card and the rescue prompt gave one
RescueCardReturned ==
  \E s \in DOMAIN req :
    /\ Classified(s)
    /\ req[s].response.debug.generation_mode = "topic_only_rescue"
    /\ req[s].response.debug.generation_attempts = 3
    /\ req[s].profile.context_quality = "good"

-----------------------------------------------------------------------------
(* Properties of generateMascotScriptWithRetries *)

\* C21: with a provider configured, generateMascotScriptWithRetries returns
\* the script of the first of its two attempts that passes
\* hasUsableMascotScript, with that attempt's number; it issues the rescue
\* prompt only after both attempts failed that check and returns the rescue's
\* script if it passes; otherwise it returns a null script with
\* quality_reject_reason mascot_script_validation_failed. Every script it
\* returns passes hasUsableMascotScript, and quality_reject_reason is null
\* exactly when validateMascotScriptStrict accepts the returned script.
MascotRetriesSequence ==
  \A s \in DOMAIN req :
    LET r == req[s]
        latest == summarizeForModel(r.payload)
        made == Len(r.scripts)
        usable(i) == hasUsableMascotScript(r.scripts[i])
    IN /\ r.pc = "mascot"
            => /\ made = r.attempt - 1
               /\ \A i \in 1..made : ~usable(i)
       /\ (Classified(s) /\ r.generated.intervention = "mascot_chat"
             /\ (apiKeys.gemini \/ apiKeys.groq))
            => /\ made \in 1..3
               /\ \A i \in 1..(made - 1) : ~usable(i)
               /\ made < 3 => usable(made)
               /\ r.mascot.attempts = made
               /\ IF usable(made)
                  THEN /\ r.mascot.script = r.scripts[made]
                       /\ r.mascot.quality_reject_reason
                            \in {"", "mascot_script_relaxed_accept"}
                  ELSE /\ r.mascot.script = Null
                       /\ r.mascot.quality_reject_reason
                            = "mascot_script_validation_failed"
               /\ ~IsNull(r.mascot.script) => hasUsableMascotScript(r.mascot.script)
               /\ r.mascot.quality_reject_reason = ""
                    <=> Strict(r.mascot.script, r.profile, latest.domain,
                               latest.study_topic)
               /\ r.generated.mascot_script = r.mascot.script
                    \/ IsNull(r.mascot.script)

\* the first attempt's script failed the lenient check and the second one's,
\* which passes it but not the strict one, was returned
SecondMascotAttemptReturned ==
  \E s \in DOMAIN req :
    /\ Classified(s)
    /\ Len(req[s].scripts) = 2
    /\ ~hasUsableMascotScript(req[s].scripts[1])
    /\ req[s].mascot.attempts = 2
    /\ req[s].mascot.script = req[s].scripts[2]
    /\ req[s].mascot.quality_reject_reason = "mascot_script_relaxed_accept"

-----------------------------------------------------------------------------
(* Generation failures *)

-----------------------------------------------------------------------------
(* Properties of the flashcard and mascot validators *)

\* C23: normalizeFlashcardAnswer replaces the answer by options[i] whenever
\* the trimmed answer is an option-letter reference (one letter, optionally
\* followed by one punctuation character such as ")") whose index i (A is the
\* first option) is within options, for every options length; otherwise it
\* returns the card unchanged.
AnswerLetterResolved ==
  (probe # Null /\ probe.fn = "flashcard") =>
    LET card == probe.card
        raw == Trim(card.answer)
        letter == LowerOfChar(CharAt(raw, 1))
        isReference ==
          /\ Len(raw) \in {1, 2}
          /\ letter \in CharSet(LowerChars)
          /\ Len(raw) = 2 => CharAt(raw, 2) \in {")", ".", ":", "-"}
        index == CHOOSE i \in 1..Len(LowerChars) : CharAt(LowerChars, i) = letter
    IN IF isReference /\ index <= Len(card.options)
       THEN probe.normalized = [card EXCEPT !.answer = card.options[index]]
       ELSE probe.normalized = card

\* C24: validateMascotScriptStrict returns true only for scripts that have
\* exactly 4 turns, with the speakers devil, angel, devil, angel in that
\* order, and whose every line has at least 8 characters after trimming: a
\* script with more than 4 turns or with a wrong speaker label is rejected.
StrictRequiresFourLabelledTurns ==
  (probe # Null /\ probe.fn = "mascot_script" /\ probe.strict) =>
    /\ ~IsNull(probe.script)
    /\ LET script == Val(probe.script)
       IN /\ Len(script) = 4
          /\ [i \in 1..4 |-> script[i].speaker] = <<"devil", "angel", "devil", "angel">>
          /\ \A i \in 1..4 : Len(Trim(script[i].text)) >= 8

\* C25: for a script whose first four turns are labelled devil, angel, devil,
\* angel, validateMascotScriptStrict rejects it when both devil lines are
\* weak (a positive study phrase and no lure phrase), and when exactly one
\* devil line is weak it rejects it only for another rule: a line under 8
\* characters, no topic or domain context, a generic script without a topic
\* mention, or all three filler phrases.
BothWeakDevilLinesRejected ==
  (probe # Null /\ probe.fn = "mascot_script" /\ ~IsNull(probe.script)
     /\ Len(Val(probe.script)) >= 4
     /\ [i \in 1..4 |-> Val(probe.script)[i].speaker] = <<"devil", "angel", "devil", "angel">>) =>
    LET latest == summarizeForModel(ValidatorPayload)
        profile == ProfileOf(ValidatorPayload)
        turns == [i \in 1..4 |-> [ speaker |-> Val(probe.script)[i].speaker,
                                   text |-> Trim(Val(probe.script)[i].text) ]]
        weak(i) == /\ \E k \in 1..Len(PositiveStudySignals) :
                        Includes(ToLower(turns[i].text), PositiveStudySignals[k])
                   /\ \A k \in 1..Len(LureSignals) :
                        ~Includes(ToLower(turns[i].text), LureSignals[k])
        mentions(i) == hasExplicitStudyTopicMention(turns[i].text, latest.study_topic)
        otherRule ==
          \/ \E i \in 1..4 : Len(turns[i].text) < 8
          \/ \A i \in 1..4 : ~hasTopicContextInLine(turns[i].text, profile, latest.domain)
                             /\ ~mentions(i)
          \/ /\ looksGenericMascotScript(turns, latest.study_topic, latest.domain, profile)
             /\ \A i \in 1..4 : ~mentions(i)
          \/ CountIncluded(ScriptBlob(turns),
                           <<"stay focused", "one more minute", "come back">>) >= 3
    IN /\ (weak(1) /\ weak(3)) => ~probe.strict
       /\ (weak(1) # weak(3)) => (probe.strict <=> ~otherRule)

\* a script with one weak devil line and one that tempts was accepted
OneWeakDevilLineAccepted ==
  /\ probe # Null /\ probe.fn = "mascot_script" /\ probe.strict
  /\ Val(probe.script)[1].speaker = "devil"
  /\ Val(probe.script)[1].text = "great job on entropy so far"
  /\ Val(probe.script)[3].text = "entropy can wait, take a break"
  /\ Len(Val(probe.script)) = 4

-----------------------------------------------------------------------------
(* Properties of computeTopicRelevance *)

\* C26: for a summary whose study_topic is empty or yields no token,
\* computeTopicRelevance returns topic_family general and relevance_score 0
\* whatever the page content; for every summary, matched_terms is a subset
\* of topic_terms and relevance_score lies in [0, 1] (0..100 hundredths).
EmptyTopicIsGeneralAndIrrelevant ==
  (probe # Null /\ probe.fn = "computeTopicRelevance") =>
    LET profile == probe.profile
    IN /\ Len(tokenize(probe.modelInput.study_topic)) = 0
            => /\ profile.topic_family = "general"
               /\ profile.relevance_score = 0
       /\ Range(profile.matched_terms) \subseteq Range(profile.topic_terms)
       /\ profile.relevance_score \in 0..100

\* a topic of stopwords only on a page with content of its own
StopwordTopicScoredZero ==
  /\ probe # Null /\ probe.fn = "computeTopicRelevance"
  /\ probe.modelInput.study_topic = "the and of"
  /\ probe.modelInput.page_title = "study guide for the general exam"
  /\ probe.profile.topic_family = "general"
  /\ probe.profile.relevance_score = 0

-----------------------------------------------------------------------------
(* The order of the steps of an analyze request *)

\* C27: in a request whose classification succeeded, a generation
\* orchestrator is invoked exactly when the intervention after the override
\* step is flashcard or mascot_chat, before the cooldown and confidence
\* checks: the decision those checks receive already has the generated
\* content and generation_failed, the checks change nothing but the
\* intervention and the reason codes, and the decision returned, also when
\* suppressed to none, carries that content and that generation_failed; a
\* decision that keeps its intervention is stamped with the time of the
\* response.
StepsRunInOrder ==
  /\ \A s \in DOMAIN req :
       LET r == req[s]
           over == ApplyOverrides(r.base, r.payload)
           d == Decision(s)
       IN /\ r.pc \in {"flashcard", "mascot"}
               => /\ r.decision = over
                  /\ r.pc = "flashcard" <=> over.intervention = "flashcard"
                  /\ r.pc = "mascot" <=> over.intervention = "mascot_chat"
                  /\ r.response = NoResponse
          /\ Classified(s)
               => /\ r.generated.intervention = over.intervention
                  /\ r.response.debug.generation_attempts > 0
                       <=> over.intervention \in {"flashcard", "mascot_chat"}
                  /\ over.intervention = "none" => r.generated = over
                  /\ \A later \in {r.cooled, d} :
                       /\ later.flashcard = r.generated.flashcard
                       /\ later.mascot_script = r.generated.mascot_script
                       /\ later.generation_failed = r.generated.generation_failed
                       /\ later.status = r.generated.status
                       /\ later.confidence = r.generated.confidence
                       /\ later.cooldown_seconds = r.generated.cooldown_seconds
                       /\ later.intervention \in {r.generated.intervention, "none"}
                  /\ r.cooled.intervention = "none" => d = r.cooled
  /\ \A s \in DOMAIN req :
       (Classified(s) /\ req[s].response.timestamp = now
          /\ Decision(s).intervention # "none")
         => StoredLast(req[s].payload) = now

\* generated content was attached and the decision was then suppressed to none
SuppressedDecisionKeepsContent ==
  \E s \in DOMAIN req :
    /\ Classified(s)
    /\ req[s].generated.intervention = "flashcard"
    /\ Decision(s).intervention = "none"
    /\ ~IsNull(Decision(s).flashcard)
    /\ req[s].attemptsMade > 0
    /\ ~Decision(s).generation_failed
    /\ Decision(s).reason_codes[Len(Decision(s).reason_codes)] = "cooldown_active"

-----------------------------------------------------------------------------
(* Termination and the number of provider calls *)

\* C28: when every provider call returns or fails, every analyze request is
\* answered, after at most 8 provider calls: at most 2 for the
\* classification and at most 2 for each of at most 3 generation prompts;
\* the flashcard and the mascot orchestrator never both run in one request.
RequestAnsweredWithinEightCalls ==
  \A s \in {1} :
    (req[s].pc \in {"classify", "flashcard", "mascot"})
      ~> ( /\ Responded(s)
           /\ req[s].attemptsMade \in 0..3
           /\ Len(req[s].calls) <= 2 + 2 * req[s].attemptsMade
           /\ Len(req[s].calls) <= 8
           /\ req[s].last = NoLast \/ req[s].scripts = <<>> )

\* a request answered after eight provider calls
EightProviderCalls ==
  \E s \in DOMAIN req : Responded(s) /\ Len(req[s].calls) = 8 /\ req[s].attemptsMade = 3

-----------------------------------------------------------------------------
(* The attempts reported by generateFlashcardWithRetries *)

\* C29: with a provider configured, the attempts value returned by
\* generateFlashcardWithRetries (the response's debug.generation_attempts) is
\* the number of generation prompts issued: 1 when the first attempt gave the
\* card, 2 when the second gave it, 3 when the rescue prompt was issued, for
\* context_quality good and for every other context_quality.
AttemptsCountsPromptsIssued ==
  \A s \in DOMAIN req :
    (Classified(s) /\ req[s].generated.intervention = "flashcard"
       /\ (apiKeys.gemini \/ apiKeys.groq))
      => /\ req[s].attemptsMade \in 1..3
         /\ req[s].response.debug.generation_attempts = req[s].attemptsMade

-----------------------------------------------------------------------------
(* The strict validators and the lenient ones *)

\* C30: every card for which isLowQualityFlashcard is false passes
\* hasUsableFlashcard, and every script that validateMascotScriptStrict
\* accepts passes hasUsableMascotScript.
StrictImpliesLenient ==
  /\ (probe # Null /\ probe.fn = "flashcard" /\ ~probe.low) => probe.usable
  /\ (probe # Null /\ probe.fn = "mascot_script" /\ probe.strict) => probe.usable

\* a card with a question of 16 characters is of good quality and usable
ShortQuestionCardPassesBoth ==
  /\ probe # Null /\ probe.fn = "flashcard"
  /\ probe.card.question = "What is entropy?"
  /\ ~probe.low
  /\ probe.usable

====
